---- MODULE Spec2Model ----
(***************************************************************************)
(* Identifier normalisation, environment flattening, lookup indexes,       *)
(* resource filtering, grouping and URL derivation of the Coolify launcher *)
(* extension, and its resources view with its fetches and redeploy actions *)
(* (src/src/api/filters.ts, src/src/search-resources.tsx,                  *)
(* src/src/search-applications.tsx).                                       *)
(*                                                                         *)
(* JavaScript strings are sequences of one-character strings.  A value     *)
(* that may be undefined, null, a number or a string is a record           *)
(* [k, n, s]: k is the JavaScript type tag, n the number, s the string.    *)
(***************************************************************************)
EXTENDS Integers, Sequences, FiniteSets, TLC

VARIABLES
  pc,              \* stage of the computation under check
  value,           \* toId: the identifier given
  normalized,      \* toId(value)
  renormalized,    \* toId(toId(value))
  projects,        \* Project[] as fetched from /projects
  environments,    \* ProjectEnvironment[]: the flattened environment list
  envToProjectMap, \* Map<string, string>
  envNameMap,      \* Map<string, string>
  envLookup,       \* Map<string, ProjectEnvironment>
  envNameToIds,    \* Map<string, Set<string>>
  items,           \* ResourceItem[]: the aggregated resources
  filterValue,     \* the filter token of the dropdown
  filtered,        \* applyFilter(items, filterValue, envToProjectMap, envNameToIds)
  applications,    \* Application[] | undefined: data of the /applications fetch
  services,        \* Service[] | undefined: data of the /services fetch
  databases,       \* Database[] | undefined: data of the /databases fetch
  resources,       \* ResourceItem[]: buildResources(...)
  app,             \* getPrimaryUrl: the application given
  url,             \* getPrimaryUrl(app)
  groupedResources, \* the sections of the resources view, in display order
  searchText,      \* the text of the search bar
  server,          \* what the API returns for each list, for this run
  cached,          \* the data the request cache held when the view mounted
  fetchState,      \* each fetch: "loading", "resolved" or "failed"
  envCall,         \* the projects the latest environments fetch was called with
  requests,        \* the deploy and log requests sent, in order, with their outcome
  toasts,          \* the toasts the handlers showed, in order
  clipboard,       \* the texts the handlers gave to Clipboard.copy, in order
  logsDetail,      \* the LogsDetail views pushed, in order
  deployments,     \* Deployment[]: data of the deployments fetch
  appIdToEnvId,    \* Map<string, string>: application id or uuid to environment
  appsCall,        \* the applications the latest deployments fetch was called with
  propEnvironmentId,   \* EnvironmentResourcesList: the environmentId prop
  propEnvironmentUuid, \* EnvironmentResourcesList: the environmentUuid prop
  input,           \* normalizeBaseUrl: the string given
  baseUrl,         \* normalizeBaseUrl(input)
  rebasedUrl       \* normalizeBaseUrl(normalizeBaseUrl(input))

idVars == <<value, normalized, renormalized>>

filterVars == <<items, filterValue, filtered>>

resourceVars == <<applications, services, databases, resources>>

urlVars == <<app, url>>

envVars == <<projects, environments>>

indexVars == <<envToProjectMap, envNameMap, envLookup, envNameToIds>>

groupVars == <<groupedResources>>

viewVars == <<searchText, server, cached, fetchState, envCall>>

deployVars == <<requests, toasts, clipboard, logsDetail>>

deploymentVars == <<deployments, appIdToEnvId, appsCall>>

envViewVars == <<propEnvironmentId, propEnvironmentUuid>>

baseUrlVars == <<input, baseUrl, rebasedUrl>>

vars == <<pc, idVars, envVars, indexVars, filterVars, resourceVars, urlVars,
          groupVars, viewVars, deployVars, deploymentVars, envViewVars,
          baseUrlVars>>

(* ------------------------------ bounds --------------------------------- *)

\* length of a string identifier given to toId
MaxLen == 3

\* largest numeric identifier given to toId
MaxNum == 12

\* size of a fetched project list: its projects plus the environments they embed
MaxSize == 4

\* resource items given to applyFilter
MaxItems == 2

\* records in each of the fetched application, service and database lists
MaxResources == 2

\* comma-separated segments of an fqdn field
MaxSegments == 2

\* deploy requests sent in one run of the view of one environment
MaxDeploys == 1

\* log requests sent in one run of the view of one environment
MaxLogs == 1

(* ------------------------- JavaScript values --------------------------- *)

Undefined == [k |-> "undefined", n |-> 0, s |-> <<>>]

Null == [k |-> "null", n |-> 0, s |-> <<>>]

Str(s) == [k |-> "string", n |-> 0, s |-> s]

Num(n) == [k |-> "number", n |-> n, s |-> <<>>]

\* an array value; s holds its elements
Arr(a) == [k |-> "array", n |-> 0, s |-> a]

IsNullish(v) == v.k \in {"undefined", "null"}

\* a ?? b
Coalesce(a, b) == IF IsNullish(a) THEN b ELSE a

\* the truthiness test of `v ? a : b` and `if (v)`
Truthy(v) ==
  CASE v.k = "string" -> v.s # <<>>
    [] v.k = "number" -> v.n # 0
    [] v.k = "array" -> TRUE
    [] OTHER -> FALSE

\* characters String.prototype.trim removes (the ones the alphabet has)
WhiteSpace == {" ", "\t"}

DigitChar(d) == <<"0", "1", "2", "3", "4", "5", "6", "7", "8", "9">>[d + 1]

RECURSIVE NatToString(_)
NatToString(n) ==
  IF n < 10 THEN <<DigitChar(n)>>
  ELSE NatToString(n \div 10) \o <<DigitChar(n % 10)>>

\* String(value) for a number or a string
StringOf(v) ==
  IF v.k = "number"
    THEN (IF v.n < 0 THEN <<"-">> \o NatToString(-v.n) ELSE NatToString(v.n))
    ELSE v.s

\* variant: strips a single leading whitespace character (/^\s/ for /^\s+/)
TrimStartOnce(s) ==
  IF s # <<>> /\ Head(s) \in WhiteSpace THEN Tail(s) ELSE s

RECURSIVE TrimStart(_)
TrimStart(s) ==
  IF s = <<>> THEN s
  ELSE IF Head(s) \in WhiteSpace THEN TrimStart(Tail(s)) ELSE s

RECURSIVE TrimEnd(_)
TrimEnd(s) ==
  IF s = <<>> THEN s
  ELSE IF s[Len(s)] \in WhiteSpace THEN TrimEnd(SubSeq(s, 1, Len(s) - 1)) ELSE s

Trim(s) == TrimEnd(TrimStart(s))

(* ------------------------------- toId ---------------------------------- *)

\* variant: tests the value's truthiness (!value) instead of undefined/null
toIdFalsy(v) ==
  IF IsNullish(v) \/ v = Num(0) \/ v = Str(<<>>) THEN Null
  ELSE LET text == Trim(StringOf(v))
       IN IF Len(text) > 0 THEN Str(text) ELSE Null

toId(v) ==
  IF IsNullish(v) THEN Null
  ELSE LET text == Trim(StringOf(v))
       IN IF Len(text) > 0 THEN Str(text) ELSE Null

(* ----------------------- flattenEnvironments --------------------------- *)

UnnamedProject == <<"U", "n", "n", "a", "m", "e", "d", " ", "P", "r", "o", "j", "e", "c", "t">>

UnnamedEnvironment == <<"U", "n", "n", "a", "m", "e", "d", " ", "E", "n", "v", "i", "r", "o", "n", "m", "e", "n", "t">>

\* null ?? undefined, as in `toId(...) ?? undefined`
OrUndefined(v) == Coalesce(v, Undefined)

\* variant: projectName copied without its default (projectName: project.name)
FlatEnvironmentNoDefault(project, environment) ==
  LET projectId == toId(Coalesce(project.id, project.uuid))
  IN [projectId |->
        Coalesce(Coalesce(projectId,
          toId(Coalesce(environment.project_id, environment.project_uuid))),
          Undefined),
      projectName |-> project.name,
      projectUuid |-> IF Truthy(project.uuid) THEN Str(StringOf(project.uuid))
                      ELSE Undefined] @@ environment

\* variant: the environment's own project reference is preferred
\* (toId(environment.project_id ?? environment.project_uuid) ?? projectId)
FlatEnvironmentOwnRefFirst(project, environment) ==
  LET projectId == toId(Coalesce(project.id, project.uuid))
  IN [projectId |->
        OrUndefined(Coalesce(
          toId(Coalesce(environment.project_id, environment.project_uuid)),
          projectId)),
      projectName |-> Coalesce(project.name, Str(UnnamedProject)),
      projectUuid |-> IF Truthy(project.uuid) THEN Str(StringOf(project.uuid))
                      ELSE Undefined] @@ environment

\* the object pushed for one environment of one project:
\* { ...environment, projectId, projectName, projectUuid }
FlatEnvironment(project, environment) ==
  LET projectId == toId(Coalesce(project.id, project.uuid))
      projectUuid == IF Truthy(project.uuid) THEN Str(StringOf(project.uuid))
                     ELSE Undefined
      projectName == Coalesce(project.name, Str(UnnamedProject))
  IN [projectId |->
        OrUndefined(Coalesce(projectId,
          toId(Coalesce(environment.project_id, environment.project_uuid)))),
      projectName |-> projectName,
      projectUuid |-> projectUuid] @@ environment

\* the inner loop: for (const environment of project.environments ?? [])
EnvironmentsOf(project) == Coalesce(project.environments, Arr(<<>>)).s

RECURSIVE FlattenProject(_, _)
FlattenProject(project, envs) ==
  IF envs = <<>> THEN <<>>
  ELSE <<FlatEnvironment(project, Head(envs))>>
         \o FlattenProject(project, Tail(envs))

\* variant: the environments of a project are put in front of the result
RECURSIVE flattenEnvironmentsUnshift(_)
flattenEnvironmentsUnshift(ps) ==
  IF ps = <<>> THEN <<>>
  ELSE flattenEnvironmentsUnshift(Tail(ps))
         \o FlattenProject(Head(ps), EnvironmentsOf(Head(ps)))

RECURSIVE flattenEnvironments(_)
flattenEnvironments(ps) ==
  IF ps = <<>> THEN <<>>
  ELSE FlattenProject(Head(ps), EnvironmentsOf(Head(ps)))
         \o flattenEnvironments(Tail(ps))

(* --------------------------- lookup builders --------------------------- *)

\* new Map()
EmptyMap == <<>>

\* map.set(key, v)
MapSet(map, key, v) ==
  [x \in (DOMAIN map) \cup {key} |-> IF x = key THEN v ELSE map[x]]

\* map.has(key)
MapHas(map, key) == key \in DOMAIN map

\* toId(env.id ?? env.uuid): the canonical key of an environment record
EnvKey(env) == toId(Coalesce(env.id, env.uuid))

\* env.name ?? "Unnamed Environment"
EnvName(env) == Coalesce(env.name, Str(UnnamedEnvironment)).s

RECURSIVE EnvToProjectLoop(_, _)
EnvToProjectLoop(map, envs) ==
  IF envs = <<>> THEN map
  ELSE LET env == Head(envs)
           envId == EnvKey(env)
           projectId ==
             toId(Coalesce(Coalesce(env.projectId, env.project_uuid), env.project_id))
       IN EnvToProjectLoop(
            IF envId # Null /\ projectId # Null
              THEN MapSet(map, envId.s, projectId.s) ELSE map,
            Tail(envs))

buildEnvToProjectMap(envs) == EnvToProjectLoop(EmptyMap, envs)

RECURSIVE EnvNameLoop(_, _)
EnvNameLoop(map, envs) ==
  IF envs = <<>> THEN map
  ELSE LET env == Head(envs)
           envId == EnvKey(env)
       IN EnvNameLoop(
            IF envId # Null THEN MapSet(map, envId.s, EnvName(env)) ELSE map,
            Tail(envs))

\* variant: a record without a name is skipped too (if (envId && env.name))
RECURSIVE EnvNameNamedOnly(_, _)
EnvNameNamedOnly(map, envs) ==
  IF envs = <<>> THEN map
  ELSE EnvNameNamedOnly(
         IF EnvKey(Head(envs)) # Null /\ ~IsNullish(Head(envs).name)
           THEN MapSet(map, EnvKey(Head(envs)).s, EnvName(Head(envs))) ELSE map,
         Tail(envs))

buildEnvNameMapNamedOnly(envs) == EnvNameNamedOnly(EmptyMap, envs)

buildEnvNameMap(envs) == EnvNameLoop(EmptyMap, envs)

RECURSIVE EnvLookupLoop(_, _)
EnvLookupLoop(map, envs) ==
  IF envs = <<>> THEN map
  ELSE LET env == Head(envs)
           envId == EnvKey(env)
       IN EnvLookupLoop(
            IF envId # Null THEN MapSet(map, envId.s, env) ELSE map,
            Tail(envs))

\* variant: a record without a canonical key is stored under ""
\* (map.set(envId ?? "", env))
RECURSIVE EnvLookupNoSkip(_, _)
EnvLookupNoSkip(map, envs) ==
  IF envs = <<>> THEN map
  ELSE EnvLookupNoSkip(
         MapSet(map, Coalesce(EnvKey(Head(envs)), Str(<<>>)).s, Head(envs)),
         Tail(envs))

buildEnvLookupNoSkip(envs) == EnvLookupNoSkip(EmptyMap, envs)

buildEnvLookup(envs) == EnvLookupLoop(EmptyMap, envs)

\* variant: every record starts a fresh set (map.set(name, new Set([envId])))
RECURSIVE EnvNameToIdsFresh(_, _)
EnvNameToIdsFresh(map, envs) ==
  IF envs = <<>> THEN map
  ELSE EnvNameToIdsFresh(
         IF EnvKey(Head(envs)) = Null THEN map
         ELSE MapSet(map, EnvName(Head(envs)), {EnvKey(Head(envs)).s}),
         Tail(envs))

buildEnvNameToIdsMapFresh(envs) == EnvNameToIdsFresh(EmptyMap, envs)

RECURSIVE EnvNameToIdsLoop(_, _)
EnvNameToIdsLoop(map, envs) ==
  IF envs = <<>> THEN map
  ELSE LET env == Head(envs)
           envId == EnvKey(env)
           name == EnvName(env)
           set == IF MapHas(map, name) THEN map[name] ELSE {}
       IN EnvNameToIdsLoop(
            IF envId = Null THEN map ELSE MapSet(map, name, set \cup {envId.s}),
            Tail(envs))

buildEnvNameToIdsMap(envs) == EnvNameToIdsLoop(EmptyMap, envs)

(* --------------------- applyFilter (resources view) -------------------- *)

\* s.startsWith(prefix)
StartsWith(s, prefix) ==
  Len(s) >= Len(prefix) /\ SubSeq(s, 1, Len(prefix)) = prefix

\* the positions at which pattern occurs in s
Occurrences(s, pattern) ==
  {i \in 1..(Len(s) - Len(pattern) + 1) :
     SubSeq(s, i, i + Len(pattern) - 1) = pattern}

\* s.replace(pattern, ""): the first occurrence of a string pattern is removed
RemoveFirst(s, pattern) ==
  IF Occurrences(s, pattern) = {} THEN s
  ELSE LET i == CHOOSE x \in Occurrences(s, pattern) :
                  \A y \in Occurrences(s, pattern) : x <= y
       IN SubSeq(s, 1, i - 1) \o SubSeq(s, i + Len(pattern), Len(s))

all == <<"a", "l", "l">>

projectPrefix == <<"p", "r", "o", "j", "e", "c", "t", ":">>

envPrefix == <<"e", "n", "v", ":">>

typePrefix == <<"t", "y", "p", "e", ":">>

\* ResourceType
application == <<"a", "p", "p", "l", "i", "c", "a", "t", "i", "o", "n">>

service == <<"s", "e", "r", "v", "i", "c", "e">>

database == <<"d", "a", "t", "a", "b", "a", "s", "e">>

\* item.environmentId ?? ""
ItemEnvId(item) == Coalesce(item.environmentId, Str(<<>>)).s

\* variant: an unknown environment name filters nothing (return items)
applyFilterUnknownEnvKeepsAll(list, token, projectMap, nameToIds) ==
  IF token = all THEN list
  ELSE IF StartsWith(token, projectPrefix) THEN
    LET projectId == RemoveFirst(token, projectPrefix)
        Keep(item) == /\ MapHas(projectMap, ItemEnvId(item))
                      /\ projectMap[ItemEnvId(item)] = projectId
    IN SelectSeq(list, Keep)
  ELSE IF StartsWith(token, envPrefix) THEN
    LET envName == RemoveFirst(token, envPrefix)
        Keep(item) == ItemEnvId(item) \in nameToIds[envName]
    IN IF ~MapHas(nameToIds, envName) THEN list ELSE SelectSeq(list, Keep)
  ELSE IF StartsWith(token, typePrefix) THEN
    LET type == RemoveFirst(token, typePrefix)
        Keep(item) == item.type = type
    IN SelectSeq(list, Keep)
  ELSE list

\* variant: an item whose environment has no project mapping is kept
applyFilterKeepsUnmapped(list, token, projectMap, nameToIds) ==
  IF token = all THEN list
  ELSE IF StartsWith(token, projectPrefix) THEN
    LET projectId == RemoveFirst(token, projectPrefix)
        Keep(item) == MapHas(projectMap, ItemEnvId(item)) =>
                        projectMap[ItemEnvId(item)] = projectId
    IN SelectSeq(list, Keep)
  ELSE IF StartsWith(token, envPrefix) THEN
    LET envName == RemoveFirst(token, envPrefix)
        Keep(item) == ItemEnvId(item) \in nameToIds[envName]
    IN IF ~MapHas(nameToIds, envName) THEN <<>> ELSE SelectSeq(list, Keep)
  ELSE IF StartsWith(token, typePrefix) THEN
    LET type == RemoveFirst(token, typePrefix)
        Keep(item) == item.type = type
    IN SelectSeq(list, Keep)
  ELSE list

\* variant: a token with no recognised prefix matches nothing (return [])
applyFilterUnknownTokenEmpty(list, token, projectMap, nameToIds) ==
  IF token = all THEN list
  ELSE IF StartsWith(token, projectPrefix) THEN
    LET projectId == RemoveFirst(token, projectPrefix)
        Keep(item) == /\ MapHas(projectMap, ItemEnvId(item))
                      /\ projectMap[ItemEnvId(item)] = projectId
    IN SelectSeq(list, Keep)
  ELSE IF StartsWith(token, envPrefix) THEN
    LET envName == RemoveFirst(token, envPrefix)
        Keep(item) == ItemEnvId(item) \in nameToIds[envName]
    IN IF ~MapHas(nameToIds, envName) THEN <<>> ELSE SelectSeq(list, Keep)
  ELSE IF StartsWith(token, typePrefix) THEN
    LET type == RemoveFirst(token, typePrefix)
        Keep(item) == item.type = type
    IN SelectSeq(list, Keep)
  ELSE <<>>

applyFilter(list, token, projectMap, nameToIds) ==
  IF token = all THEN list
  ELSE IF StartsWith(token, projectPrefix) THEN
    LET projectId == RemoveFirst(token, projectPrefix)
        Keep(item) == /\ MapHas(projectMap, ItemEnvId(item))
                      /\ projectMap[ItemEnvId(item)] = projectId
    IN SelectSeq(list, Keep)
  ELSE IF StartsWith(token, envPrefix) THEN
    LET envName == RemoveFirst(token, envPrefix)
        Keep(item) == ItemEnvId(item) \in nameToIds[envName]
    IN IF ~MapHas(nameToIds, envName) THEN <<>> ELSE SelectSeq(list, Keep)
  ELSE IF StartsWith(token, typePrefix) THEN
    LET type == RemoveFirst(token, typePrefix)
        Keep(item) == item.type = type
    IN SelectSeq(list, Keep)
  ELSE list

(* ---------------------------- getPrimaryUrl ---------------------------- *)

httpScheme == <<"h", "t", "t", "p", ":", "/", "/">>

httpsScheme == <<"h", "t", "t", "p", "s", ":", "/", "/">>

\* s.split(",")[0]: the text in front of the first comma
RECURSIVE FirstSegment(_)
FirstSegment(s) ==
  IF s = <<>> \/ Head(s) = "," THEN <<>>
  ELSE <<Head(s)>> \o FirstSegment(Tail(s))

\* variant: the whole field is used (no split at the comma)
getPrimaryUrlNoSplit(a) ==
  IF ~Truthy(a.fqdn) THEN Undefined
  ELSE LET raw == Trim(a.fqdn.s)
       IN IF raw = <<>> THEN Undefined
          ELSE IF StartsWith(raw, httpScheme) \/ StartsWith(raw, httpsScheme)
            THEN Str(raw)
          ELSE Str(httpsScheme \o raw)

getPrimaryUrl(a) ==
  IF ~Truthy(a.fqdn) THEN Undefined
  ELSE LET raw == Trim(FirstSegment(a.fqdn.s))
       IN IF raw = <<>> THEN Undefined
          ELSE IF StartsWith(raw, httpScheme) \/ StartsWith(raw, httpsScheme)
            THEN Str(raw)
          ELSE Str(httpsScheme \o raw)

(* ------------------------ the resource aggregator ---------------------- *)

appPlaceholder == <<"a", "p", "p">>

servicePlaceholder == <<"s", "e", "r", "v", "i", "c", "e">>

dbPlaceholder == <<"d", "b">>

\* variant: the fallback is a chain of ??, without normalization
ResourceIdNullish(r, placeholder) ==
  StringOf(Coalesce(Coalesce(Coalesce(r.id, r.uuid), r.name), Str(placeholder)))

\* the canonical id of the data model: the first of id, uuid, name that is
\* non-empty after normalization, else the placeholder of the kind
ResourceId(r, placeholder) ==
  Coalesce(Coalesce(Coalesce(toId(r.id), toId(r.uuid)), toId(r.name)),
           Str(placeholder)).s

\* the list key of an item: `${item.type}-${item.id}`
ItemKey(item) == item.type \o <<"-">> \o item.id

\* the environment reference as a string, "" when absent
ResourceEnvId(r) ==
  Coalesce(toId(Coalesce(r.environment_id, r.environment_uuid)), Str(<<>>))

ApplicationItem(r) ==
  [id |-> ResourceId(r, appPlaceholder), type |-> application, uuid |-> r.uuid,
   name |-> r.name, environmentId |-> ResourceEnvId(r), url |-> getPrimaryUrl(r)]

ServiceItem(r) ==
  [id |-> ResourceId(r, servicePlaceholder), type |-> service, uuid |-> r.uuid,
   name |-> r.name, environmentId |-> ResourceEnvId(r), url |-> Undefined]

DatabaseItem(r) ==
  [id |-> ResourceId(r, dbPlaceholder), type |-> database, uuid |-> r.uuid,
   name |-> r.name, environmentId |-> ResourceEnvId(r), url |-> Undefined]

\* all applications, then all services, then all databases
buildResources(apps, svcs, dbs) ==
  [i \in 1..Len(apps) |-> ApplicationItem(apps[i])]
    \o [i \in 1..Len(svcs) |-> ServiceItem(svcs[i])]
    \o [i \in 1..Len(dbs) |-> DatabaseItem(dbs[i])]

\* data ?? []
OrEmpty(data) == Coalesce(data, Arr(<<>>)).s

\* variant: the services and databases arguments change places
ResourcesSwapped(apps, svcs, dbs) ==
  buildResources(OrEmpty(apps), OrEmpty(dbs), OrEmpty(svcs))

\* buildResources(applications ?? [], services ?? [], databases ?? [])
Resources(apps, svcs, dbs) ==
  buildResources(OrEmpty(apps), OrEmpty(svcs), OrEmpty(dbs))

(* ------------------ groupedResources (resources view) ------------------ *)

LowerCase ==
  <<"a", "b", "c", "d", "e", "f", "g", "h", "i", "j", "k", "l", "m",
    "n", "o", "p", "q", "r", "s", "t", "u", "v", "w", "x", "y", "z">>

UpperCase ==
  <<"A", "B", "C", "D", "E", "F", "G", "H", "I", "J", "K", "L", "M",
    "N", "O", "P", "Q", "R", "S", "T", "U", "V", "W", "X", "Y", "Z">>

\* white space and punctuation, in collation order
Symbols == <<"\t", " ", "-", ",", ":", ".", "/">>

Digits == <<"0", "1", "2", "3", "4", "5", "6", "7", "8", "9">>

\* the position of c in the sequence, 0 when it is not there
IndexIn(c, chars) ==
  IF \E i \in 1..Len(chars) : chars[i] = c
    THEN CHOOSE i \in 1..Len(chars) : chars[i] = c
    ELSE 0

\* the primary collation weight: symbols, then digits, then letters without
\* regard to case
PrimaryWeight(c) ==
  IF IndexIn(c, LowerCase) > 0 THEN Len(Symbols) + Len(Digits) + IndexIn(c, LowerCase)
  ELSE IF IndexIn(c, UpperCase) > 0
    THEN Len(Symbols) + Len(Digits) + IndexIn(c, UpperCase)
  ELSE IF IndexIn(c, Digits) > 0 THEN Len(Symbols) + IndexIn(c, Digits)
  ELSE IndexIn(c, Symbols)

RECURSIVE ComparePrimary(_, _)
ComparePrimary(a, b) ==
  IF a = <<>> /\ b = <<>> THEN 0
  ELSE IF a = <<>> THEN -1
  ELSE IF b = <<>> THEN 1
  ELSE IF PrimaryWeight(Head(a)) < PrimaryWeight(Head(b)) THEN -1
  ELSE IF PrimaryWeight(Head(a)) > PrimaryWeight(Head(b)) THEN 1
  ELSE ComparePrimary(Tail(a), Tail(b))

RECURSIVE CompareCase(_, _)
\* for strings of equal primary weights: lower case before upper case
CompareCase(a, b) ==
  IF a = <<>> \/ b = <<>> THEN 0
  ELSE IF IndexIn(Head(a), LowerCase) > 0 /\ IndexIn(Head(b), UpperCase) > 0
    THEN -1
  ELSE IF IndexIn(Head(a), UpperCase) > 0 /\ IndexIn(Head(b), LowerCase) > 0
    THEN 1
  ELSE CompareCase(Tail(a), Tail(b))

\* a.localeCompare(b) under the root collation
LocaleCompare(a, b) ==
  IF ComparePrimary(a, b) # 0 THEN ComparePrimary(a, b) ELSE CompareCase(a, b)

\* variant: the ranks follow the alphabet (database before service)
typeOrderAlphabetical(type) ==
  IF type = application THEN 1
  ELSE IF type = database THEN 2
  ELSE IF type = service THEN 3
  ELSE 99

typeOrder(type) ==
  IF type = application THEN 1
  ELSE IF type = service THEN 2
  ELSE IF type = database THEN 3
  ELSE 99

Unassigned == <<"U", "n", "a", "s", "s", "i", "g", "n", "e", "d">>

Unknown == <<"U", "n", "k", "n", "o", "w", "n">>

\* { item, projectName, envName } of the filteredResources.map callback
EntryOf(item, lookup, nameMap) ==
  LET envId == ItemEnvId(item)
      projectName ==
        IF MapHas(lookup, envId)
          THEN Coalesce(lookup[envId].projectName, Str(Unassigned)).s
          ELSE Unassigned
      envName == IF MapHas(nameMap, envId) THEN nameMap[envId] ELSE Unknown
  IN [item |-> item, projectName |-> projectName, envName |-> envName]

\* the outcome of an evaluation: it returns a value, or it throws a TypeError
Returns(v) == [threw |-> FALSE, value |-> v]

TypeError == [threw |-> TRUE, value |-> <<>>]

\* ToString(that) of receiver.localeCompare(that)
ArgumentText(v) ==
  IF v.k = "undefined" THEN <<"u", "n", "d", "e", "f", "i", "n", "e", "d">>
  ELSE IF v.k = "null" THEN <<"n", "u", "l", "l">>
  ELSE StringOf(v)

\* the comparator given to entries.sort; a.item.name.localeCompare throws
\* when a.item.name is not a string
CompareEntries(a, b) ==
  LET projectCompare == LocaleCompare(a.projectName, b.projectName)
      envCompare == LocaleCompare(a.envName, b.envName)
      typeCompare == typeOrder(a.item.type) - typeOrder(b.item.type)
  IN IF projectCompare # 0 THEN Returns(projectCompare)
     ELSE IF envCompare # 0 THEN Returns(envCompare)
     ELSE IF typeCompare # 0 THEN Returns(typeCompare)
     ELSE IF a.item.name.k # "string" THEN TypeError
     ELSE Returns(LocaleCompare(a.item.name.s, ArgumentText(b.item.name)))

\* a run found: its last position and its direction
RunFound(end, descending) ==
  [threw |-> FALSE, end |-> end, descending |-> descending]

RunThrown == [threw |-> TRUE, end |-> 0, descending |-> FALSE]

RECURSIVE CountRun(_, _, _)
RECURSIVE CountRunStep(_, _, _, _)
\* the comparison of the element at idx with the one in front of it: the
\* first pair gives the direction of the run, a later pair that leaves the
\* direction ends it (a descending run is strict)
CountRunStep(entries, idx, descending, order) ==
  IF order.threw THEN RunThrown
  ELSE IF idx = 2 THEN CountRun(entries, 3, order.value < 0)
  ELSE IF (descending /\ order.value >= 0) \/ (~descending /\ order.value < 0)
    THEN RunFound(idx - 1, descending)
  ELSE CountRun(entries, idx + 1, descending)

\* the run that starts the array
CountRun(entries, idx, descending) ==
  IF idx > Len(entries) THEN RunFound(idx - 1, descending)
  ELSE CountRunStep(entries, idx, descending,
                    CompareEntries(entries[idx], entries[idx - 1]))

\* the elements in reverse order
Reverse(s) == [i \in 1..Len(s) |-> s[Len(s) + 1 - i]]

RECURSIVE InsertAt(_, _, _, _)
RECURSIVE InsertAtStep(_, _, _, _, _, _)
\* one step of the binary search: the pivot goes in front of the element at
\* mid when it compares below it, else behind it
InsertAtStep(sorted, pivot, left, right, mid, order) ==
  IF order.threw THEN 0
  ELSE IF order.value < 0 THEN InsertAt(sorted, pivot, left, mid)
  ELSE InsertAt(sorted, pivot, mid + 1, right)

\* the binary search for the place of the pivot among the sorted elements
\* left..(right - 1); 0 when a comparison throws
InsertAt(sorted, pivot, left, right) ==
  IF left >= right THEN left
  ELSE InsertAtStep(sorted, pivot, left, right, left + ((right - left) \div 2),
                    CompareEntries(pivot, sorted[left + ((right - left) \div 2)]))

\* the pivot is put at the place found
PlaceEntry(sorted, e, at) ==
  IF at = 0 THEN TypeError
  ELSE Returns(SubSeq(sorted, 1, at - 1) \o <<e>> \o SubSeq(sorted, at, Len(sorted)))

\* the pivot is put among the sorted elements, behind the elements that do
\* not come after it
InsertEntry(sorted, e) ==
  PlaceEntry(sorted, e, InsertAt(sorted, e, 1, Len(sorted) + 1))

RECURSIVE InsertRest(_, _)
\* the elements behind the first run are inserted one by one
InsertRest(sorted, rest) ==
  IF sorted.threw \/ rest = <<>> THEN sorted
  ELSE InsertRest(InsertEntry(sorted.value, Head(rest)), Tail(rest))

\* the first run, reversed when it descends, and the other elements put
\* into it by binary insertion
SortFromRun(entries, run) ==
  IF run.threw THEN TypeError
  ELSE InsertRest(Returns(IF run.descending
                            THEN Reverse(SubSeq(entries, 1, run.end))
                            ELSE SubSeq(entries, 1, run.end)),
                  SubSeq(entries, run.end + 1, Len(entries)))

\* entries.sort(comparator), for arrays shorter than one minimal run; a
\* comparison that throws ends the sort
SortEntries(entries) ==
  IF Len(entries) < 2 THEN Returns(entries)
  ELSE SortFromRun(entries, CountRun(entries, 2, FALSE))

RECURSIVE GroupLoop(_, _)
\* the Map of groups keyed by project name, in insertion order
GroupLoop(groups, entries) ==
  IF entries = <<>> THEN groups
  ELSE LET entry == Head(entries)
           at == {i \in 1..Len(groups) : groups[i].projectName = entry.projectName}
       IN GroupLoop(
            IF at = {}
              THEN Append(groups,
                     [projectName |-> entry.projectName, items |-> <<entry>>])
              ELSE [groups EXCEPT ![CHOOSE i \in at : TRUE].items = Append(@, entry)],
            Tail(entries))

\* the groups of the sorted entries; a sort that threw ends the memo
GroupsOf(sorted) ==
  IF sorted.threw THEN TypeError ELSE GroupLoop(<<>>, sorted.value)

\* variant: every entry starts a section of its own
GroupedResourcesNoMerge(list, lookup, nameMap) ==
  LET sorted == SortEntries([i \in 1..Len(list) |->
                               EntryOf(list[i], lookup, nameMap)]).value
  IN [i \in 1..Len(sorted) |->
        [projectName |-> sorted[i].projectName, items |-> <<sorted[i]>>]]

\* the groupedResources memo
GroupedResources(list, lookup, nameMap) ==
  GroupsOf(SortEntries([i \in 1..Len(list) |-> EntryOf(list[i], lookup, nameMap)]))

(* ------------------- specification: the normalizer --------------------- *)

IdAlphabet == {" ", "\t", "a", "0"}

RECURSIVE StringsUpTo(_, _)
StringsUpTo(alphabet, n) ==
  IF n = 0 THEN {<<>>}
  ELSE LET shorter == StringsUpTo(alphabet, n - 1)
       IN shorter \cup {Append(s, c) : s \in shorter, c \in alphabet}

Identifiers ==
  {Undefined, Null}
    \cup {Num(n) : n \in (-1)..MaxNum}
    \cup {Str(s) : s \in StringsUpTo(IdAlphabet, MaxLen)}

NoValue == Undefined

\* the state of the parts a specification does not exercise
IdIdle == value = NoValue /\ normalized = NoValue /\ renormalized = NoValue

EnvIdle == projects = <<>> /\ environments = <<>>

IndexIdle ==
  /\ envToProjectMap = EmptyMap
  /\ envNameMap = EmptyMap
  /\ envLookup = EmptyMap
  /\ envNameToIds = EmptyMap

FilterIdle == items = <<>> /\ filterValue = <<>> /\ filtered = <<>>

ResourceIdle ==
  /\ applications = Undefined
  /\ services = Undefined
  /\ databases = Undefined
  /\ resources = <<>>

UrlIdle == app = Undefined /\ url = Undefined

GroupIdle == groupedResources = <<>>

ViewIdle ==
  /\ searchText = <<>>
  /\ server = NoValue
  /\ cached = NoValue
  /\ fetchState = NoValue
  /\ envCall = <<>>

DeployIdle ==
  /\ requests = <<>>
  /\ toasts = <<>>
  /\ clipboard = <<>>
  /\ logsDetail = <<>>
  /\ deployments = <<>>
  /\ appIdToEnvId = EmptyMap
  /\ appsCall = <<>>
  /\ propEnvironmentId = NoValue
  /\ propEnvironmentUuid = NoValue
  /\ input = <<>>
  /\ baseUrl = <<>>
  /\ rebasedUrl = <<>>

InitId ==
  /\ pc = "input"
  /\ GroupIdle
  /\ ViewIdle
  /\ DeployIdle
  /\ value \in Identifiers
  /\ normalized = NoValue
  /\ renormalized = NoValue
  /\ EnvIdle
  /\ IndexIdle
  /\ FilterIdle
  /\ ResourceIdle
  /\ UrlIdle

\* const id = toId(value)
Normalize ==
  /\ pc = "input"
  /\ normalized' = toId(value)
  /\ pc' = "normalized"
  /\ UNCHANGED <<value, renormalized, envVars, indexVars, filterVars, resourceVars, urlVars,
                 groupVars, viewVars, deployVars,
                 deploymentVars, envViewVars, baseUrlVars>>

\* toId(id) on a result that is a string
Renormalize ==
  /\ pc = "normalized"
  /\ normalized.k = "string"
  /\ renormalized' = toId(normalized)
  /\ pc' = "renormalized"
  /\ UNCHANGED <<value, normalized, envVars, indexVars, filterVars, resourceVars, urlVars,
                 groupVars, viewVars, deployVars,
                 deploymentVars, envViewVars, baseUrlVars>>

NextId == Normalize \/ Renormalize

SpecId == InitId /\ [][NextId]_vars

(* ------------------------ claims on the normalizer --------------------- *)

\* C1: normalizing an already-normalized value returns the same string
\* (toId(toId(v)) = toId(v) whenever toId(v) is not null), and
\* toId(undefined) = null.
C1_Idempotent ==
  /\ pc = "renormalized" => renormalized = normalized
  /\ (pc # "input" /\ value = Undefined) => normalized = Null

\* an input with surrounding whitespace was normalized, then normalized again
C1_Witness ==
  /\ pc = "renormalized"
  /\ value.k = "string"
  /\ Len(value.s) > Len(normalized.s) + 1

AllWhiteSpace(s) == \A i \in 1..Len(s) : s[i] \in WhiteSpace

\* t is s without its leading and trailing whitespace, stated on positions
IsTrimOf(t, s) ==
  /\ t # <<>>
  /\ t[1] \notin WhiteSpace
  /\ t[Len(t)] \notin WhiteSpace
  /\ \E i \in 1..Len(s) :
       /\ i + Len(t) - 1 <= Len(s)
       /\ SubSeq(s, i, i + Len(t) - 1) = t
       /\ AllWhiteSpace(SubSeq(s, 1, i - 1))
       /\ AllWhiteSpace(SubSeq(s, i + Len(t), Len(s)))

\* C2: toId is total; it returns null exactly when the input is
\* undefined/null or its string form is empty after trimming, and otherwise
\* the trimmed string form, non-empty and without leading or trailing
\* whitespace; the number 0 normalizes to "0".
C2_Total ==
  pc # "input" =>
    /\ normalized.k \in {"null", "string"}
    /\ normalized = Null <=>
         (IsNullish(value) \/ AllWhiteSpace(StringOf(value)))
    /\ normalized.k = "string" => IsTrimOf(normalized.s, StringOf(value))
    /\ value = Num(0) => normalized = Str(<<"0">>)

\* the number 0 was normalized to the string "0"
C2_Witness == pc = "normalized" /\ value = Num(0) /\ normalized = Str(<<"0">>)

(* ------------- specification: flattening and the indexes --------------- *)

Env(id, uuid, name, project_id, project_uuid) ==
  [id |-> id, uuid |-> uuid, name |-> name,
   project_id |-> project_id, project_uuid |-> project_uuid]

Project(id, uuid, name, envs) ==
  [id |-> id, uuid |-> uuid, name |-> name, environments |-> envs]

prod == <<"p", "r", "o", "d">>

dev == <<"d", "e", "v">>

\* environment records as the API returns them: numeric and string ids, a
\* string id equal to another record's numeric id, uuid-only records, a
\* record without any identifier, a blank id in front of a uuid, and a record
\* carrying its own project reference
EnvPool ==
  { Env(Num(1), Undefined, Str(prod), Undefined, Undefined),
    Env(Num(2), Str(<<"e", "2">>), Str(prod), Undefined, Undefined),
    Env(Str(<<"1">>), Undefined, Str(dev), Undefined, Undefined),
    Env(Undefined, Str(<<"e", "4">>), Undefined, Undefined, Undefined),
    Env(Undefined, Undefined, Str(prod), Undefined, Undefined),
    Env(Str(<<" ">>), Str(<<"e", "6">>), Str(dev), Undefined, Undefined),
    Env(Num(3), Undefined, Undefined, Num(7), Str(<<"p", "x">>)) }

\* project records without their environments: [id, uuid, name]
ProjectHeads ==
  { <<Num(1), Str(<<"p", "a">>), Str(<<"P">>)>>,
    <<Num(2), Undefined, Str(<<"Q">>)>>,
    <<Undefined, Str(<<"p", "c">>), Undefined>>,
    <<Undefined, Undefined, Str(<<"P">>)>> }

RECURSIVE EnvSeqs(_)
\* the environment arrays of length n
EnvSeqs(n) ==
  IF n = 0 THEN {<<>>}
  ELSE {<<e>> \o es : e \in EnvPool, es \in EnvSeqs(n - 1)}

\* the projects embedding n environments; a project without a name may also
\* come without its environments array
ProjectsWith(n) ==
  {Project(h[1], h[2], h[3], Arr(es)) : h \in ProjectHeads, es \in EnvSeqs(n)}
    \cup (IF n = 0
            THEN {Project(h[1], h[2], h[3], Undefined) :
                    h \in {g \in ProjectHeads : g[3] = Undefined}}
            ELSE {})

RECURSIVE ProjectLists(_)
\* the project lists of size at most n (projects plus embedded environments)
ProjectLists(n) ==
  IF n = 0 THEN {<<>>}
  ELSE {<<>>} \cup
       UNION {{<<p>> \o rest : p \in ProjectsWith(e),
                              rest \in ProjectLists(n - 1 - e)} : e \in 0..(n - 1)}

InitEnv ==
  /\ pc = "input"
  /\ GroupIdle
  /\ ViewIdle
  /\ DeployIdle
  /\ projects \in ProjectLists(MaxSize)
  /\ environments = <<>>
  /\ IdIdle
  /\ IndexIdle
  /\ FilterIdle
  /\ ResourceIdle
  /\ UrlIdle

\* const environments = flattenEnvironments(projects)
Flatten ==
  /\ pc = "input"
  /\ environments' = flattenEnvironments(projects)
  /\ pc' = "flattened"
  /\ UNCHANGED <<projects, idVars, indexVars, filterVars, resourceVars, urlVars,
                 groupVars, viewVars, deployVars,
                 deploymentVars, envViewVars, baseUrlVars>>

\* the four useMemo indexes over the environment list
BuildIndexes ==
  /\ pc = "flattened"
  /\ envToProjectMap' = buildEnvToProjectMap(environments)
  /\ envNameMap' = buildEnvNameMap(environments)
  /\ envLookup' = buildEnvLookup(environments)
  /\ envNameToIds' = buildEnvNameToIdsMap(environments)
  /\ pc' = "indexed"
  /\ UNCHANGED <<projects, environments, idVars, filterVars, resourceVars, urlVars,
                 groupVars, viewVars, deployVars,
                 deploymentVars, envViewVars, baseUrlVars>>

NextEnv == Flatten \/ BuildIndexes

SpecEnv == InitEnv /\ [][NextEnv]_vars

(* --------------- claims on flattening and the indexes ------------------ *)

\* number of environments a project embeds (none when the array is absent)
EnvCount(p) == IF p.environments.k = "array" THEN Len(p.environments.s) ELSE 0

RECURSIVE EnvCountBefore(_)
\* number of environments embedded by the projects 1..i of the input
EnvCountBefore(i) ==
  IF i = 0 THEN 0 ELSE EnvCountBefore(i - 1) + EnvCount(projects[i])

\* the positions (i, j) of the embedded environments of the input
EnvPositions ==
  {ij \in (1..Len(projects)) \X (1..MaxSize) : ij[2] <= EnvCount(projects[ij[1]])}

RawEnv(ij) == projects[ij[1]].environments.s[ij[2]]

\* the fields of a flattened record that the raw record had
OriginalFields(flat, raw) == [f \in DOMAIN raw |-> flat[f]]

\* C3: flattenEnvironments(P) is the concatenation, in project order, of
\* each project's environments in their order; an absent list contributes
\* nothing; the length is the sum of the environment counts and no record
\* is dropped, duplicated or reordered.
C3_FlattenConcatenates ==
  pc # "input" =>
    /\ Len(environments) = EnvCountBefore(Len(projects))
    /\ \A ij \in EnvPositions :
         OriginalFields(environments[EnvCountBefore(ij[1] - 1) + ij[2]], RawEnv(ij))
           = RawEnv(ij)

\* two projects with different environments were flattened
C3_Witness ==
  /\ pc = "flattened"
  /\ Len(projects) = 2
  /\ EnvCount(projects[1]) = 1
  /\ EnvCount(projects[2]) = 1
  /\ RawEnv(<<1, 1>>) # RawEnv(<<2, 1>>)
  /\ Len(environments) = 2

\* the environment at ij has canonical key k, and every embedded environment
\* with that key belongs to the same project
OnlyInProject(ij, k) ==
  /\ EnvKey(RawEnv(ij)) = Str(k)
  /\ \A other \in EnvPositions :
       EnvKey(RawEnv(other)) = Str(k) => other[1] = ij[1]

ProjectNameOf(i) == Coalesce(projects[i].name, Str(UnnamedProject))

\* the canonical id of project i
ProjectKey(i) == toId(Coalesce(projects[i].id, projects[i].uuid))

\* C4: for every environment with a non-null canonical key that is embedded
\* in exactly one project p, envLookup has an entry under its key whose
\* projectName is p's name ("Unnamed Project" when p has no name).
C4_LookupProjectName ==
  pc = "indexed" =>
    \A ij \in EnvPositions :
      \A k \in {EnvKey(RawEnv(ij)).s} :
        OnlyInProject(ij, k) =>
          /\ MapHas(envLookup, k)
          /\ envLookup[k].projectName = ProjectNameOf(ij[1])

\* an environment of an unnamed project was indexed next to another project
C4_Witness ==
  /\ pc = "indexed"
  /\ Len(projects) = 2
  /\ \E ij \in EnvPositions :
       /\ OnlyInProject(ij, EnvKey(RawEnv(ij)).s)
       /\ projects[ij[1]].name = Undefined
       /\ envLookup[EnvKey(RawEnv(ij)).s].projectName = Str(UnnamedProject)
  /\ \E ij \in EnvPositions : projects[ij[1]].name # Undefined

\* the names carried by two environments of different projects
SharedNames ==
  {EnvName(RawEnv(a)) : a \in {x \in EnvPositions :
     \E y \in EnvPositions :
       x[1] # y[1] /\ EnvName(RawEnv(x)) = EnvName(RawEnv(y))}}

\* C5 as stated: every environment name carried by two environments of
\* different projects has at least 2 members in envNameToIds.
C5_Original ==
  pc = "indexed" =>
    \A name \in SharedNames :
      MapHas(envNameToIds, name) /\ Cardinality(envNameToIds[name]) >= 2

\* the names carried by two environments of different projects whose
\* canonical keys are non-null and differ
SharedNamesDistinctKeys ==
  {EnvName(RawEnv(a)) : a \in {x \in EnvPositions :
     \E y \in EnvPositions :
       /\ x[1] # y[1]
       /\ EnvName(RawEnv(x)) = EnvName(RawEnv(y))
       /\ EnvKey(RawEnv(x)) # Null
       /\ EnvKey(RawEnv(y)) # Null
       /\ EnvKey(RawEnv(x)) # EnvKey(RawEnv(y))}}

\* C5 (amended): every environment name carried by two environments of
\* different projects whose canonical keys are non-null and differ from each
\* other has at least 2 members in envNameToIds.
C5_SharedNameHasTwoIds ==
  pc = "indexed" =>
    \A name \in SharedNamesDistinctKeys :
      MapHas(envNameToIds, name) /\ Cardinality(envNameToIds[name]) >= 2

\* two projects each embed an environment named "prod", with keys "1" and "2"
C5_Witness ==
  /\ pc = "indexed"
  /\ prod \in SharedNamesDistinctKeys
  /\ envNameToIds[prod] = {<<"1">>, <<"2">>}

\* the canonical keys of the records of the environment list
CanonicalKeys ==
  {EnvKey(environments[i]).s :
     i \in {j \in 1..Len(environments) : EnvKey(environments[j]) # Null}}

\* the keys held by the three single-valued maps and the members of the sets
\* of envNameToIds
IndexedKeys ==
  DOMAIN envToProjectMap \cup DOMAIN envNameMap \cup DOMAIN envLookup
    \cup UNION {envNameToIds[name] : name \in DOMAIN envNameToIds}

\* C11: every key of envToProject, envNameMap and envLookup, and every member
\* of every set of envNameToIds, is the canonical key of at least one record
\* of the environment list whose canonical key is not null; none of them is
\* the empty string (which is also how a null key would be stored).
C11_KeysAreCanonical ==
  pc = "indexed" =>
    /\ IndexedKeys \subseteq CanonicalKeys
    /\ <<>> \notin IndexedKeys

\* a record without any identifier was indexed next to a keyed one
C11_Witness ==
  /\ pc = "indexed"
  /\ \E i \in 1..Len(environments) : EnvKey(environments[i]) = Null
  /\ \E i \in 1..Len(environments) :
       /\ environments[i].id = Str(<<" ">>)
       /\ EnvKey(environments[i]) = Null
  /\ IndexedKeys # {}

\* the positions of the records with a canonical key
KeyedPositions ==
  {i \in 1..Len(environments) : EnvKey(environments[i]) # Null}

\* C12 as stated: every record with a non-null canonical key k has an entry
\* under k in envToProject, envNameMap and envLookup, and k is a member of
\* envNameToIds[its display name]; the three single-valued maps have the
\* same key set.
C12_Original ==
  pc = "indexed" =>
    /\ \A i \in KeyedPositions :
         /\ MapHas(envToProjectMap, EnvKey(environments[i]).s)
         /\ MapHas(envNameMap, EnvKey(environments[i]).s)
         /\ MapHas(envLookup, EnvKey(environments[i]).s)
         /\ MapHas(envNameToIds, EnvName(environments[i]))
         /\ EnvKey(environments[i]).s \in envNameToIds[EnvName(environments[i])]
    /\ DOMAIN envToProjectMap = DOMAIN envNameMap
    /\ DOMAIN envNameMap = DOMAIN envLookup

\* the normalized project reference of a flattened record
ProjectRef(env) ==
  toId(Coalesce(Coalesce(env.projectId, env.project_uuid), env.project_id))

\* C12 (amended): every record with a non-null canonical key k has an entry
\* under k in envNameMap and envLookup, and k is a member of
\* envNameToIds[its display name]; it has an entry under k in envToProject
\* when its normalized project reference is not null, and every key of
\* envToProject belongs to a record with a non-null project reference;
\* envNameMap and envLookup have the same key set, which contains that of
\* envToProject.
C12_KeyedRecordsIndexed ==
  pc = "indexed" =>
    /\ \A i \in KeyedPositions :
         /\ MapHas(envNameMap, EnvKey(environments[i]).s)
         /\ MapHas(envLookup, EnvKey(environments[i]).s)
         /\ MapHas(envNameToIds, EnvName(environments[i]))
         /\ EnvKey(environments[i]).s \in envNameToIds[EnvName(environments[i])]
         /\ ProjectRef(environments[i]) # Null
              => MapHas(envToProjectMap, EnvKey(environments[i]).s)
    /\ \A k \in DOMAIN envToProjectMap :
         \E i \in KeyedPositions :
           EnvKey(environments[i]).s = k /\ ProjectRef(environments[i]) # Null
    /\ DOMAIN envNameMap = DOMAIN envLookup
    /\ DOMAIN envToProjectMap \subseteq DOMAIN envNameMap

\* a keyed, unnamed record without any project reference was indexed next to
\* a keyed record of a project with an id
C12_Witness ==
  /\ pc = "indexed"
  /\ \E i \in KeyedPositions :
       /\ ProjectRef(environments[i]) = Null
       /\ IsNullish(environments[i].name)
       /\ ~MapHas(envToProjectMap, EnvKey(environments[i]).s)
       /\ MapHas(envNameMap, EnvKey(environments[i]).s)
  /\ \E i \in KeyedPositions :
       MapHas(envToProjectMap, EnvKey(environments[i]).s)

\* the first of id, uuid that is non-empty after normalization
FirstNonEmpty(id, uuid) == IF toId(id) # Null THEN toId(id) ELSE toId(uuid)

\* C13: wherever a canonical id is computed from the pair (id, uuid), the
\* project id in flattenEnvironments and in the filter dropdown and the
\* environment key in the four builders, the result is the first of id, uuid
\* that is non-empty after normalization; a record whose id is blank and
\* whose uuid is not gets its uuid.
C13_FirstNonEmpty ==
  /\ \A i \in 1..Len(projects) :
       ProjectKey(i) = FirstNonEmpty(projects[i].id, projects[i].uuid)
  /\ \A ij \in EnvPositions :
       EnvKey(RawEnv(ij)) = FirstNonEmpty(RawEnv(ij).id, RawEnv(ij).uuid)
  /\ pc = "indexed" =>
       \A ij \in EnvPositions :
         FirstNonEmpty(RawEnv(ij).id, RawEnv(ij).uuid) # Null =>
           MapHas(envLookup, FirstNonEmpty(RawEnv(ij).id, RawEnv(ij).uuid).s)

\* the normalization of an environment's own project-reference fields
OwnProjectRef(raw) == toId(Coalesce(raw.project_id, raw.project_uuid))

\* C14: every flattened environment carries the owning project's canonical
\* id when that is not null, otherwise the normalization of its own
\* project-reference fields (undefined when these are absent too); its
\* original fields are copied unchanged and projectName is the project's name
\* or "Unnamed Project".
C14_FlattenAttribution ==
  pc # "input" =>
    \A ij \in EnvPositions :
      LET flat == environments[EnvCountBefore(ij[1] - 1) + ij[2]]
      IN /\ flat.projectId =
              (IF ProjectKey(ij[1]) # Null THEN ProjectKey(ij[1])
               ELSE IF OwnProjectRef(RawEnv(ij)) # Null
                      THEN OwnProjectRef(RawEnv(ij))
               ELSE Undefined)
         /\ OriginalFields(flat, RawEnv(ij)) = RawEnv(ij)
         /\ flat.projectName = ProjectNameOf(ij[1])

\* an environment with its own project reference was flattened under a
\* project with an id, and another one under a project without any id
C14_Witness ==
  /\ pc = "flattened"
  /\ \E ij \in EnvPositions :
       /\ ProjectKey(ij[1]) # Null
       /\ OwnProjectRef(RawEnv(ij)) # Null
       /\ OwnProjectRef(RawEnv(ij)) # ProjectKey(ij[1])
       /\ environments[EnvCountBefore(ij[1] - 1) + ij[2]].projectId
            = ProjectKey(ij[1])
  /\ \E ij \in EnvPositions :
       /\ ProjectKey(ij[1]) = Null
       /\ environments[EnvCountBefore(ij[1] - 1) + ij[2]].projectId
            = OwnProjectRef(RawEnv(ij))
       /\ OwnProjectRef(RawEnv(ij)) # Null

(* ------------- specification: filtering the resource list -------------- *)

Item(id, type, name, environmentId) ==
  [id |-> id, type |-> type, name |-> name, environmentId |-> environmentId]

\* resource items: environment references "1", "2", "10", "3", a uuid, the
\* empty string and none; two items alike in type, name and environment, and
\* names that differ in case only
ItemPool ==
  { Item(<<"a", "1">>, application, Str(<<"A", "p", "p">>), Str(<<"1">>)),
    Item(<<"s", "1">>, service, Str(<<"S", "v", "c">>), Str(<<"2">>)),
    Item(<<"d", "1">>, database, Str(<<"D", "b">>), Str(<<"1", "0">>)),
    Item(<<"a", "2">>, application, Str(<<"W", "e", "b">>), Undefined),
    Item(<<"s", "2">>, service, Str(<<"J", "o", "b">>), Str(<<>>)),
    Item(<<"d", "2">>, database, Str(<<"P", "g">>), Str(<<"e", "4">>)),
    Item(<<"a", "3">>, application, Str(<<"A", "p", "i">>), Str(<<"3">>)),
    Item(<<"a", "4">>, application, Str(<<"W", "e", "b">>), Str(<<>>)),
    Item(<<"a", "5">>, application, Str(<<"w", "e", "b">>), Undefined) }

RECURSIVE ItemLists(_)
\* the item lists of length at most n
ItemLists(n) ==
  IF n = 0 THEN {<<>>}
  ELSE ItemLists(n - 1)
         \cup {Append(l, i) : l \in {x \in ItemLists(n - 1) : Len(x) = n - 1},
                              i \in ItemPool}

NoRef == Undefined

P1(envs) == Project(Num(1), Str(<<"p", "a">>), Str(<<"P">>), Arr(envs))

P2(envs) == Project(Num(2), Undefined, Str(<<"Q">>), Arr(envs))

P10(envs) == Project(Num(10), Undefined, Str(<<"Q">>), Arr(envs))

PNoId(envs) == Project(Undefined, Undefined, Str(<<"P">>), Arr(envs))

\* a project whose name is the title of the section of unresolved resources
PUnassigned(envs) == Project(Num(3), Undefined, Str(Unassigned), Arr(envs))

\* the project lists the resource list is filtered against: project ids 1
\* and 10, a name shared between projects, a project without an id, an
\* environment key carried by two projects, environments without a key or
\* with their own project reference, and no project at all
FilterProjects ==
  { <<P1(<<Env(Num(1), NoRef, Str(prod), NoRef, NoRef),
           Env(Num(2), NoRef, Str(dev), NoRef, NoRef)>>),
      P10(<<Env(Num(10), NoRef, Str(prod), NoRef, NoRef)>>)>>,
    <<PNoId(<<Env(Num(1), NoRef, Str(prod), NoRef, NoRef)>>),
      P2(<<Env(NoRef, Str(<<"e", "4">>), NoRef, NoRef, NoRef)>>)>>,
    <<P1(<<Env(Num(1), NoRef, Str(prod), NoRef, NoRef)>>),
      P2(<<Env(Str(<<"1">>), NoRef, Str(dev), NoRef, NoRef)>>)>>,
    <<>>,
    <<PNoId(<<Env(Num(3), NoRef, NoRef, Num(7), Str(<<"p", "x">>))>>),
      P1(<<Env(Num(2), Str(<<"e", "2">>), Str(prod), NoRef, NoRef)>>)>>,
    <<P1(<<Env(NoRef, NoRef, Str(prod), NoRef, NoRef)>>),
      P10(<<Env(Num(10), NoRef, Str(prod), NoRef, NoRef)>>)>>,
    <<P2(<<Env(Num(2), NoRef, Str(prod), NoRef, NoRef)>>),
      P10(<<Env(Num(10), NoRef, Str(prod), NoRef, NoRef)>>),
      PUnassigned(<<Env(Num(1), NoRef, Str(dev), NoRef, NoRef)>>)>> }

\* filter tokens: the dropdown's values and tokens it never produces
Tokens ==
  { <<"a", "l", "l">>,
    <<"p", "r", "o", "j", "e", "c", "t", ":", "1">>,
    <<"p", "r", "o", "j", "e", "c", "t", ":", "1", "0">>,
    <<"p", "r", "o", "j", "e", "c", "t", ":", "2">>,
    <<"p", "r", "o", "j", "e", "c", "t", ":", "7">>,
    <<"p", "r", "o", "j", "e", "c", "t", ":", "p", "x">>,
    <<"p", "r", "o", "j", "e", "c", "t", ":">>,
    <<"e", "n", "v", ":", "p", "r", "o", "d">>,
    <<"e", "n", "v", ":", "d", "e", "v">>,
    <<"e", "n", "v", ":", "n", "o", "p", "e">>,
    <<"e", "n", "v", ":", "U", "n", "n", "a", "m", "e", "d", " ", "E", "n", "v", "i", "r", "o", "n", "m", "e", "n", "t">>,
    <<"e", "n", "v", ":">>,
    <<"t", "y", "p", "e", ":", "a", "p", "p", "l", "i", "c", "a", "t", "i", "o", "n">>,
    <<"t", "y", "p", "e", ":", "s", "e", "r", "v", "i", "c", "e">>,
    <<"t", "y", "p", "e", ":", "d", "b">>,
    <<"s", "t", "a", "t", "u", "s", ":", "x">>,
    <<>>,
    <<"A", "l", "l">>,
    <<"p", "r", "o", "j", "e", "c", "t", "s">>,
    <<"e", "n", "v", "i", "r", "o", "n", "m", "e", "n", "t">> }

InitFilter ==
  /\ pc = "input"
  /\ GroupIdle
  /\ ViewIdle
  /\ DeployIdle
  /\ projects \in FilterProjects
  /\ environments = <<>>
  /\ items \in ItemLists(MaxItems)
  /\ filterValue = <<>>
  /\ filtered = <<>>
  /\ IdIdle
  /\ IndexIdle
  /\ ResourceIdle
  /\ UrlIdle

\* setFilterValue(token), then
\* applyFilter(resources, filterValue, envToProjectMap, envNameToIds)
ApplyFilter(token) ==
  /\ pc = "indexed"
  /\ filterValue' = token
  /\ filtered' = applyFilter(items, token, envToProjectMap, envNameToIds)
  /\ pc' = "filtered"
  /\ UNCHANGED <<items, idVars, envVars, indexVars, resourceVars, urlVars,
                 groupVars, viewVars, deployVars,
                 deploymentVars, envViewVars, baseUrlVars>>

\* const groupedResources = useMemo(...), as the filter shows its result
Group ==
  /\ pc = "filtered"
  /\ groupedResources' = GroupedResources(filtered, envLookup, envNameMap)
  /\ pc' = "grouped"
  /\ UNCHANGED <<filterVars, idVars, envVars, indexVars, resourceVars, urlVars,
                 viewVars, deployVars,
                 deploymentVars, envViewVars, baseUrlVars>>

NextFilter ==
  \/ Flatten
  \/ BuildIndexes
  \/ \E token \in Tokens : ApplyFilter(token)
  \/ Group

SpecFilter == InitFilter /\ [][NextFilter]_vars

(* ----------------------- claims on applyFilter ------------------------- *)

\* out holds exactly the elements of in at the positions in keep, in order
IsSelection(out, in, keep) ==
  /\ Len(out) = Cardinality(keep)
  /\ \A i \in keep : out[Cardinality({j \in keep : j <= i})] = in[i]

\* the text of the token after a prefix of n characters
After(n) == SubSeq(filterValue, n + 1, Len(filterValue))

Range(s) == {s[i] : i \in 1..Len(s)}

\* C6: "env:" + name returns the empty list when name is not a key of
\* envNameToIds, and otherwise exactly the items whose environmentId is a
\* member of envNameToIds[name], in input order: the union of the matches
\* over every project that has an environment of that name.
C6_EnvFilter ==
  (pc = "filtered" /\ StartsWith(filterValue, envPrefix)) =>
    LET name == After(4) IN
      /\ name \notin DOMAIN envNameToIds => filtered = <<>>
      /\ name \in DOMAIN envNameToIds =>
           IsSelection(filtered, items,
             {i \in 1..Len(items) :
                /\ items[i].environmentId.k = "string"
                /\ items[i].environmentId.s \in envNameToIds[name]})
      /\ \A e \in 1..Len(environments) :
           (EnvName(environments[e]) = name /\ EnvKey(environments[e]) # Null) =>
             \A i \in 1..Len(items) :
               items[i].environmentId = EnvKey(environments[e]) =>
                 items[i] \in Range(filtered)

\* env:prod kept the items of the "prod" environments of two projects and
\* dropped another item
C6_Witness ==
  /\ pc = "filtered"
  /\ filterValue = envPrefix \o prod
  /\ MapHas(envNameToIds, prod)
  /\ envNameToIds[prod] = {<<"1">>, <<"1", "0">>}
  /\ Len(items) = 2
  /\ Len(filtered) = 1
  /\ filtered[1].environmentId = Str(<<"1", "0">>)

\* C7: "project:" + id keeps exactly the items whose environmentId maps
\* through envToProject to a value equal to id (whole-string equality) and
\* drops every item whose environmentId has no entry; an item in an
\* environment embedded in project p is kept by project:<canonical id of p>
\* and dropped by project:<q> for every other q.
C7_ProjectFilter ==
  (pc = "filtered" /\ StartsWith(filterValue, projectPrefix)) =>
    LET id == After(8) IN
      /\ IsSelection(filtered, items,
           {i \in 1..Len(items) :
              /\ items[i].environmentId.k = "string"
              /\ items[i].environmentId.s \in DOMAIN envToProjectMap
              /\ envToProjectMap[items[i].environmentId.s] = id})
      /\ \A i \in 1..Len(items) :
           (\/ items[i].environmentId.k # "string"
            \/ items[i].environmentId.s \notin DOMAIN envToProjectMap)
             => items[i] \notin Range(filtered)
      /\ \A ij \in EnvPositions :
           \A k \in {EnvKey(RawEnv(ij)).s} :
             (OnlyInProject(ij, k) /\ ProjectKey(ij[1]) # Null) =>
               \A i \in 1..Len(items) :
                 items[i].environmentId = Str(k) =>
                   (items[i] \in Range(filtered) <=> id = ProjectKey(ij[1]).s)

\* project:1 kept the item of project 1 and dropped the item of project 10
C7_Witness ==
  /\ pc = "filtered"
  /\ filterValue = projectPrefix \o <<"1">>
  /\ MapHas(envToProjectMap, <<"1", "0">>)
  /\ envToProjectMap[<<"1", "0">>] = <<"1", "0">>
  /\ Len(items) = 2
  /\ items[1].environmentId = Str(<<"1", "0">>)
  /\ items[2].environmentId = Str(<<"1">>)
  /\ filtered = <<items[2]>>

\* C8: the token "all", and any token that starts with none of project:,
\* env:, type:, returns the input list unchanged.
C8_IdentityFilter ==
  (/\ pc = "filtered"
   /\ \/ filterValue = all
      \/ /\ ~StartsWith(filterValue, projectPrefix)
         /\ ~StartsWith(filterValue, envPrefix)
         /\ ~StartsWith(filterValue, typePrefix))
    => filtered = items

\* an unrecognised token was applied to two items with indexes built
C8_Witness ==
  /\ pc = "filtered"
  /\ filterValue \notin {all, <<>>}
  /\ ~StartsWith(filterValue, projectPrefix)
  /\ ~StartsWith(filterValue, envPrefix)
  /\ ~StartsWith(filterValue, typePrefix)
  /\ Len(items) = 2
  /\ items[1] # items[2]
  /\ envToProjectMap # EmptyMap
  /\ filtered = items

(* --------------------- claims on groupedResources ---------------------- *)

RECURSIVE ItemsOfGroups(_)
\* the displayed entries: the items of the sections, section after section
ItemsOfGroups(groups) ==
  IF groups = <<>> THEN <<>>
  ELSE Head(groups).items \o ItemsOfGroups(Tail(groups))

\* the display name of the project owning an item
OwnerName(item) ==
  IF MapHas(envLookup, ItemEnvId(item))
    THEN envLookup[ItemEnvId(item)].projectName.s
    ELSE Unassigned

\* the display name of the environment of an item
EnvDisplayName(item) ==
  IF MapHas(envNameMap, ItemEnvId(item)) THEN envNameMap[ItemEnvId(item)]
  ELSE Unknown

\* the rank of a resource type
TypeRank(type) ==
  CASE type = application -> 1
    [] type = service -> 2
    [] type = database -> 3
    [] OTHER -> 99

\* x comes strictly before y: by project name, then environment name, then
\* type rank, then item name
ComesBefore(x, y) ==
  LET p == LocaleCompare(OwnerName(x), OwnerName(y))
      e == LocaleCompare(EnvDisplayName(x), EnvDisplayName(y))
      t == TypeRank(x.type) - TypeRank(y.type)
      n == LocaleCompare(x.name.s, y.name.s)
  IN \/ p < 0
     \/ p = 0 /\ e < 0
     \/ p = 0 /\ e = 0 /\ t < 0
     \/ p = 0 /\ e = 0 /\ t = 0 /\ n < 0

\* the one-to-one maps of the positions 1..n
Rearrangements(n) ==
  {f \in [1..n -> 1..n] : \A i, j \in 1..n : f[i] = f[j] => i = j}

\* C15: the grouped view shows the filtered items ordered by owning project
\* display name, then environment display name, then type rank
\* (application 1, service 2, database 3, other 99), then item name; items
\* equal on all four keys keep their order of the filtered list.
C15_GroupedOrder ==
  pc = "grouped" =>
    LET shown == ItemsOfGroups(groupedResources)
    IN /\ Len(shown) = Len(filtered)
       /\ \E from \in Rearrangements(Len(filtered)) :
            /\ \A k \in 1..Len(shown) : shown[k].item = filtered[from[k]]
            /\ \A a, b \in 1..Len(shown) :
                 a < b =>
                   /\ ~ComesBefore(shown[b].item, shown[a].item)
                   /\ ~ComesBefore(shown[a].item, shown[b].item)
                        => from[a] < from[b]

\* a service was listed in front of an application of the same project and
\* environment and is shown behind it
C15_Witness ==
  /\ pc = "grouped"
  /\ Len(filtered) = 2
  /\ filtered[1].type = service
  /\ filtered[2].type = application
  /\ LocaleCompare(filtered[1].name.s, filtered[2].name.s) < 0
  /\ Len(groupedResources) = 1
  /\ groupedResources[1].projectName = Unassigned
  /\ groupedResources[1].items[1].item = filtered[2]
  /\ groupedResources[1].items[2].item = filtered[1]

(* ------------- specification: aggregating the resources ---------------- *)

App(id, uuid, name, fqdn, environment_id) ==
  [id |-> id, uuid |-> uuid, name |-> name, fqdn |-> fqdn,
   environment_id |-> environment_id, environment_uuid |-> Undefined]

Resource(id, uuid, name, environment_id) ==
  [id |-> id, uuid |-> uuid, name |-> name,
   environment_id |-> environment_id, environment_uuid |-> Undefined]

AppPool ==
  { App(Num(1), Str(<<"u", "a">>), Str(<<"A", "p", "p">>),
        Str(<<"a", ".", "c", "o", "m", ",", "b", ".", "c", "o", "m">>), Num(10)),
    App(Undefined, Str(<<"u", "b">>), Undefined, Undefined, Undefined),
    App(Undefined, Undefined, Undefined, Undefined, Undefined) }

ServicePool ==
  { Resource(Num(1), Str(<<"u", "s">>), Str(<<"S", "v", "c">>), Num(2)),
    Resource(Undefined, Undefined, Str(<<"J", "o", "b">>), Undefined),
    Resource(Str(<<>>), Str(<<" ">>), Str(<<>>), Undefined) }

DatabasePool ==
  { Resource(Num(1), Str(<<"u", "d">>), Str(<<"D", "b">>), Str(<<"1", "0">>)),
    Resource(Undefined, Str(<<"u", "e">>), Undefined, Undefined),
    Resource(Str(<<>>), Null, Str(<<"D", "b">>), Undefined) }

RECURSIVE ListsOf(_, _)
\* the lists of at most n records of pool
ListsOf(pool, n) ==
  IF n = 0 THEN {<<>>}
  ELSE ListsOf(pool, n - 1)
         \cup {Append(l, r) : l \in {x \in ListsOf(pool, n - 1) : Len(x) = n - 1},
                              r \in pool}

\* what a fetch holds: no data yet, or an array
FetchData(pool) == {Undefined} \cup {Arr(l) : l \in ListsOf(pool, MaxResources)}

InitAggregate ==
  /\ pc = "input"
  /\ GroupIdle
  /\ ViewIdle
  /\ DeployIdle
  /\ applications \in FetchData(AppPool)
  /\ services \in FetchData(ServicePool)
  /\ databases \in FetchData(DatabasePool)
  /\ resources = <<>>
  /\ IdIdle
  /\ EnvIdle
  /\ IndexIdle
  /\ FilterIdle
  /\ UrlIdle

\* const resources = useMemo(() => buildResources(...), [...])
Aggregate ==
  /\ pc = "input"
  /\ resources' = Resources(applications, services, databases)
  /\ pc' = "aggregated"
  /\ UNCHANGED <<applications, services, databases,
                 idVars, envVars, indexVars, filterVars, urlVars,
                 groupVars, viewVars, deployVars,
                 deploymentVars, envViewVars, baseUrlVars>>

NextAggregate == Aggregate

SpecAggregate == InitAggregate /\ [][NextAggregate]_vars

\* the records of a fetch (none while it has no data)
Records(data) == IF data.k = "array" THEN data.s ELSE <<>>

\* item is the item of kind type made from record r
ItemOf(item, r, type) ==
  item.type = type /\ item.uuid = r.uuid /\ item.name = r.name

\* C9: aggregate(apps, services, databases) has the sum of the three input
\* lengths as its length, and holds one item per application in input
\* order, then one per service, then one per database; three empty lists
\* give the empty list.
C9_AggregateOrder ==
  pc = "aggregated" =>
    LET a == Records(applications)
        s == Records(services)
        d == Records(databases)
    IN /\ Len(resources) = Len(a) + Len(s) + Len(d)
       /\ \A i \in 1..Len(a) : ItemOf(resources[i], a[i], application)
       /\ \A i \in 1..Len(s) : ItemOf(resources[Len(a) + i], s[i], service)
       /\ \A i \in 1..Len(d) :
            ItemOf(resources[Len(a) + Len(s) + i], d[i], database)
       /\ (a = <<>> /\ s = <<>> /\ d = <<>>) => resources = <<>>

\* two applications, a service and two databases were aggregated
C9_Witness ==
  /\ pc = "aggregated"
  /\ Len(Records(applications)) = 2
  /\ Len(Records(services)) = 1
  /\ Len(Records(databases)) = 2
  /\ Records(applications)[1] # Records(applications)[2]
  /\ Len(resources) = 5
  /\ resources[3].type = service

\* the record the item at position i of the aggregated list was made from,
\* and the placeholder of its kind
SourceOf(i) ==
  LET a == Records(applications)
      s == Records(services)
      d == Records(databases)
  IN IF i <= Len(a) THEN <<a[i], appPlaceholder>>
     ELSE IF i <= Len(a) + Len(s) THEN <<s[i - Len(a)], servicePlaceholder>>
     ELSE <<d[i - Len(a) - Len(s)], dbPlaceholder>>

\* C16: every aggregated item has a non-empty id: the normalized id, uuid or
\* name of its record, the first of the three that has a normalized value,
\* and the placeholder of its kind ("app", "service", "db") when none has,
\* also when every natural identifier is absent or an empty string; the
\* list key `${type}-${id}` is therefore longer than `${type}-`.
C16_IdNeverEmpty ==
  pc = "aggregated" =>
    \A i \in 1..Len(resources) :
      LET r == SourceOf(i)[1]
          candidates == <<toId(r.id), toId(r.uuid), toId(r.name)>>
          id == resources[i].id
      IN /\ id # <<>>
         /\ \/ \E k \in 1..3 : /\ candidates[k] # Null
                               /\ id = candidates[k].s
                               /\ \A j \in 1..(k - 1) : candidates[j] = Null
            \/ /\ \A k \in 1..3 : candidates[k] = Null
               /\ id = SourceOf(i)[2]
         /\ Len(ItemKey(resources[i])) > Len(resources[i].type) + 1

\* an application without any identifier, a service whose identifiers are
\* all empty or blank, and a database with an empty id and a name
C16_Witness ==
  /\ pc = "aggregated"
  /\ \E i \in 1..Len(resources) :
       /\ SourceOf(i)[1].id = Undefined
       /\ SourceOf(i)[1].uuid = Undefined
       /\ SourceOf(i)[1].name = Undefined
       /\ resources[i].id = appPlaceholder
  /\ \E i \in 1..Len(resources) :
       /\ SourceOf(i)[1].id = Str(<<>>)
       /\ SourceOf(i)[1].name = Str(<<>>)
       /\ resources[i].id = servicePlaceholder
  /\ \E i \in 1..Len(resources) :
       /\ SourceOf(i)[1].id = Str(<<>>)
       /\ resources[i].id = <<"D", "b">>
       /\ ItemKey(resources[i]) = database \o <<"-", "D", "b">>

(* ------------------ specification: the primary url --------------------- *)

\* the segments of an fqdn field: host names, padded, with a scheme, a bare
\* scheme, empty and blank
Segments ==
  { <<"a", ".", "c", "o", "m">>,
    <<" ", "a", ".", "c", "o", "m", " ">>,
    <<"b", ".", "c", "o", "m">>,
    <<"h", "t", "t", "p", "s", ":", "/", "/", "a", ".", "c", "o", "m">>,
    <<"h", "t", "t", "p", ":", "/", "/", "b", ".", "i", "o">>,
    <<"h", "t", "t", "p", "s", ":", "/", "/">>,
    <<>>,
    <<" ">> }

RECURSIVE Fqdns(_)
\* the fqdn fields of n comma-separated segments
Fqdns(n) ==
  IF n = 1 THEN Segments
  ELSE {f \o <<",">> \o s : f \in Fqdns(n - 1), s \in Segments}

InitUrl ==
  /\ pc = "input"
  /\ GroupIdle
  /\ ViewIdle
  /\ DeployIdle
  /\ \E fqdn \in {Undefined} \cup {Str(f) : f \in UNION {Fqdns(n) : n \in 1..MaxSegments}} :
       app = App(Num(1), Undefined, Undefined, fqdn, Undefined)
  /\ url = Undefined
  /\ IdIdle
  /\ EnvIdle
  /\ IndexIdle
  /\ FilterIdle
  /\ ResourceIdle

\* const url = getPrimaryUrl(app)
PrimaryUrl ==
  /\ pc = "input"
  /\ url' = getPrimaryUrl(app)
  /\ pc' = "derived"
  /\ UNCHANGED <<app, idVars, envVars, indexVars, filterVars, resourceVars,
                 groupVars, viewVars, deployVars,
                 deploymentVars, envViewVars, baseUrlVars>>

NextUrl == PrimaryUrl

SpecUrl == InitUrl /\ [][NextUrl]_vars

\* seg is the first comma-separated segment of f, stated on positions
IsFirstSegment(seg, f) ==
  /\ Len(seg) <= Len(f)
  /\ SubSeq(f, 1, Len(seg)) = seg
  /\ \A i \in 1..Len(seg) : seg[i] # ","
  /\ Len(seg) < Len(f) => f[Len(seg) + 1] = ","

\* the first segments of the fqdn of app (exactly one when fqdn is a string)
FirstSegments ==
  {seg \in {SubSeq(app.fqdn.s, 1, n) : n \in 0..Len(app.fqdn.s)} :
     IsFirstSegment(seg, app.fqdn.s)}

\* raw is seg trimmed
IsTrimmed(raw, seg) ==
  IF AllWhiteSpace(seg) THEN raw = <<>> ELSE IsTrimOf(raw, seg)

\* the url of a trimmed, non-empty first segment
SchemeUrl(raw) ==
  IF StartsWith(raw, httpScheme) \/ StartsWith(raw, httpsScheme)
    THEN Str(raw) ELSE Str(httpsScheme \o raw)

\* C10 as stated: the url is the first comma-separated segment of fqdn,
\* trimmed, unchanged when it starts with http:// or https:// and prefixed
\* with https:// otherwise; it is undefined when fqdn is absent or empty
\* after trimming; a derived url is never the bare scheme "https://".
C10_Original ==
  pc = "derived" =>
    /\ (app.fqdn = Undefined \/ AllWhiteSpace(app.fqdn.s)) => url = Undefined
    /\ url # Undefined =>
         \E seg \in FirstSegments :
           \E raw \in {url.s, SubSeq(url.s, 9, Len(url.s))} :
             IsTrimmed(raw, seg) /\ url = SchemeUrl(raw)
    /\ url # Str(httpsScheme)

\* C10 (amended): the url is undefined exactly when fqdn is absent or its
\* first comma-separated segment is empty after trimming; otherwise it is
\* that segment, trimmed, unchanged when it starts with http:// or https://
\* and prefixed with https:// otherwise; a derived url is the bare scheme
\* "https://" only when the trimmed first segment is itself "https://".
C10_PrimaryUrl ==
  pc = "derived" =>
    /\ url = Undefined <=>
         (app.fqdn = Undefined \/ \A seg \in FirstSegments : AllWhiteSpace(seg))
    /\ url # Undefined =>
         \E seg \in FirstSegments :
           \E raw \in {url.s, SubSeq(url.s, 9, Len(url.s))} :
             IsTrimmed(raw, seg) /\ url = SchemeUrl(raw)
    /\ url = Str(httpsScheme) =>
         \E seg \in FirstSegments : IsTrimmed(httpsScheme, seg)

\* fqdn "a.com,b.com" gave "https://a.com"
C10_Witness ==
  /\ pc = "derived"
  /\ app.fqdn = Str(<<"a", ".", "c", "o", "m", ",", "b", ".", "c", "o", "m">>)
  /\ url = Str(<<"h", "t", "t", "p", "s", ":", "/", "/", "a", ".", "c", "o", "m">>)

(* --------------------- the resources view: functions ------------------- *)

\* s.toLowerCase()
ToLowerCase(s) ==
  [i \in 1..Len(s) |->
     IF IndexIn(s[i], UpperCase) > 0 THEN LowerCase[IndexIn(s[i], UpperCase)]
     ELSE s[i]]

\* item[f], undefined when the item has no such property
Field(item, f) == IF f \in DOMAIN item THEN item[f] ELSE Undefined

RECURSIVE JoinTruthy(_)
\* parts.filter(Boolean).join(" ")
JoinTruthy(parts) ==
  IF parts = <<>> THEN <<>>
  ELSE IF ~Truthy(Head(parts)) THEN JoinTruthy(Tail(parts))
  ELSE LET rest == JoinTruthy(Tail(parts))
       IN IF rest = <<>> THEN Head(parts).s ELSE Head(parts).s \o <<" ">> \o rest

\* the text the search is matched against
Haystack(item) ==
  ToLowerCase(JoinTruthy(<<Field(item, "name"), Field(item, "subtitle"),
                           Field(item, "repo"), Field(item, "kind"),
                           Str(item.type)>>))

\* the filteredResources memo
FilteredResources(list, token, text, projectMap, nameToIds) ==
  LET lower == ToLowerCase(Trim(text))
      withFilter == applyFilter(list, token, projectMap, nameToIds)
      Matches(item) == Occurrences(Haystack(item), lower) # {}
  IN IF lower = <<>> THEN withFilter ELSE SelectSeq(withFilter, Matches)

\* the environments of the projects given, as one list
fetchProjectEnvironments(ps) == flattenEnvironments(ps)

\* variant: the memo has an empty dependency list and keeps its first value
UseMemoOnce(previous, changed, fresh) == previous

\* useMemo(() => fresh, deps): recomputed when a dependency changed
UseMemo(previous, changed, fresh) == IF changed THEN fresh ELSE previous

\* the argument list of the environments fetch: [projects?.length ?? 0]
EnvironmentsArgs(data) == Len(OrEmpty(data))

\* variant: a failed fetch leaves no data
DataAfterFailureNone(previous) == Undefined

\* the data of a fetch whose call was rejected: the request cache keeps the
\* last good value (useCachedPromise of @raycast/utils, as the error-handling
\* design describes it)
DataAfterFailure(previous) == previous

\* the project tokens the dropdown of a list view offers
ProjectTokens(ps) ==
  {projectPrefix \o toId(Coalesce(ps[i].id, ps[i].uuid)).s :
     i \in {j \in 1..Len(ps) : Truthy(toId(Coalesce(ps[j].id, ps[j].uuid)))}}

\* the environment tokens the dropdown of a list view offers
EnvTokens(nameToIds) == {envPrefix \o name : name \in DOMAIN nameToIds}

\* the type tokens the dropdown of the resources view offers
TypeTokens == {typePrefix \o application, typePrefix \o service,
               typePrefix \o database}

(* ----------------- specification: the resources view ------------------- *)

FetchNames == {"projects", "environments", "applications", "services", "databases"}

\* two projects with three environments
ProjectsA ==
  <<P1(<<Env(Num(1), NoRef, Str(prod), NoRef, NoRef),
         Env(Num(2), NoRef, Str(dev), NoRef, NoRef)>>),
    P10(<<Env(Num(10), NoRef, Str(prod), NoRef, NoRef)>>)>>

\* two other projects, with two environments
ProjectsB ==
  <<P1(<<Env(Num(1), NoRef, Str(dev), NoRef, NoRef)>>),
    P2(<<Env(NoRef, Str(<<"e", "4">>), NoRef, NoRef, NoRef)>>)>>

\* one project, whose environment "10" is named dev
ProjectsC == <<P10(<<Env(Num(10), NoRef, Str(dev), NoRef, NoRef)>>)>>

ViewApplications ==
  <<App(Num(1), Str(<<"u", "a">>), Str(<<"A", "p", "p">>),
        Str(<<"a", ".", "c", "o", "m">>), Num(10)),
    App(Num(2), Undefined, Str(<<"W", "e", "b">>), Undefined, Num(1))>>

ViewServices ==
  <<Resource(Num(1), Str(<<"u", "s">>), Str(<<"S", "v", "c">>), Num(2))>>

ViewDatabases ==
  <<Resource(Num(1), Str(<<"u", "d">>), Str(<<"D", "b">>), Str(<<"e", "4">>))>>

\* what the API may hold during a run
Servers ==
  [projects : {<<>>, ProjectsA, ProjectsB, ProjectsC},
   applications : {ViewApplications, SubSeq(ViewApplications, 1, 1)},
   services : {ViewServices},
   databases : {ViewDatabases}]

\* the request cache at mount: empty, or filled by an earlier run
Caches ==
  { [projects |-> Undefined, environments |-> Undefined,
     applications |-> Undefined, services |-> Undefined,
     databases |-> Undefined],
    [projects |-> Arr(ProjectsA),
     environments |-> Arr(fetchProjectEnvironments(ProjectsA)),
     applications |-> Arr(SubSeq(ViewApplications, 2, 2)),
     services |-> Arr(<<>>),
     databases |-> Arr(ViewDatabases)] }

ViewTokens ==
  { all,
    projectPrefix \o <<"1">>,
    envPrefix \o prod,
    typePrefix \o service }

ViewSearches == {<<>>, <<" ", "W", "E", "B">>}

\* the derived structures of one render
Render(environmentsChanged, resourcesChanged) ==
  /\ envToProjectMap' = UseMemo(envToProjectMap, environmentsChanged,
                                buildEnvToProjectMap(OrEmpty(environments')))
  /\ envNameMap' = UseMemo(envNameMap, environmentsChanged,
                           buildEnvNameMap(OrEmpty(environments')))
  /\ envLookup' = UseMemo(envLookup, environmentsChanged,
                          buildEnvLookup(OrEmpty(environments')))
  /\ envNameToIds' = UseMemo(envNameToIds, environmentsChanged,
                             buildEnvNameToIdsMap(OrEmpty(environments')))
  /\ resources' = UseMemo(resources, resourcesChanged,
                          Resources(applications', services', databases'))
  /\ filtered' = FilteredResources(resources', filterValue', searchText',
                                   envToProjectMap', envNameToIds')
  /\ groupedResources' = GroupedResources(filtered', envLookup', envNameMap')

\* the first render: every fetch is started, the data is what the cache holds
InitView ==
  /\ pc = "view"
  /\ server \in Servers
  /\ cached \in Caches
  /\ projects = cached.projects
  /\ environments = cached.environments
  /\ applications = cached.applications
  /\ services = cached.services
  /\ databases = cached.databases
  /\ fetchState = [f \in FetchNames |-> "loading"]
  /\ envCall = OrEmpty(projects)
  /\ filterValue = all
  /\ searchText = <<>>
  /\ envToProjectMap = buildEnvToProjectMap(OrEmpty(environments))
  /\ envNameMap = buildEnvNameMap(OrEmpty(environments))
  /\ envLookup = buildEnvLookup(OrEmpty(environments))
  /\ envNameToIds = buildEnvNameToIdsMap(OrEmpty(environments))
  /\ resources = Resources(applications, services, databases)
  /\ filtered = FilteredResources(resources, filterValue, searchText,
                                  envToProjectMap, envNameToIds)
  /\ groupedResources = GroupedResources(filtered, envLookup, envNameMap)
  /\ items = <<>>
  /\ IdIdle
  /\ UrlIdle
  /\ DeployIdle

\* the render gave the environments fetch another argument list than the
\* one its latest call was started with: the effect that follows the render
\* is still to start it again
EnvironmentsStale == EnvironmentsArgs(projects) # EnvironmentsArgs(Arr(envCall))

\* the /projects fetch resolves and the view renders with the new projects;
\* the environments fetch is as it was in this render
ProjectsResolve ==
  /\ pc = "view"
  /\ ~EnvironmentsStale
  /\ fetchState["projects"] = "loading"
  /\ projects' = Arr(server.projects)
  /\ fetchState' = [fetchState EXCEPT !["projects"] = "resolved"]
  /\ UNCHANGED <<environments, applications, services, databases,
                 filterValue, searchText>>
  /\ Render(FALSE, FALSE)
  /\ UNCHANGED <<pc, items, server, cached, envCall, idVars, urlVars,
                 deployVars, deploymentVars, envViewVars, baseUrlVars>>

\* the effect behind a render with a changed argument list: the environments
\* fetch is started again, with the projects of that render, and the view
\* renders with the fetch loading
EnvironmentsRestart ==
  /\ pc = "view"
  /\ EnvironmentsStale
  /\ fetchState' = [fetchState EXCEPT !["environments"] = "loading"]
  /\ envCall' = OrEmpty(projects)
  /\ UNCHANGED <<projects, environments, applications, services, databases,
                 filterValue, searchText>>
  /\ Render(FALSE, FALSE)
  /\ UNCHANGED <<pc, items, server, cached, idVars, urlVars,
                 deployVars, deploymentVars, envViewVars, baseUrlVars>>

\* the environments fetch that was started last resolves
EnvironmentsResolve ==
  /\ pc = "view"
  /\ ~EnvironmentsStale
  /\ fetchState["environments"] = "loading"
  /\ environments' = Arr(fetchProjectEnvironments(envCall))
  /\ fetchState' = [fetchState EXCEPT !["environments"] = "resolved"]
  /\ UNCHANGED <<projects, applications, services, databases,
                 filterValue, searchText>>
  /\ Render(TRUE, FALSE)
  /\ UNCHANGED <<pc, items, server, cached, envCall, idVars, urlVars, deployVars,
                 deploymentVars, envViewVars, baseUrlVars>>

ApplicationsResolve ==
  /\ pc = "view"
  /\ ~EnvironmentsStale
  /\ fetchState["applications"] = "loading"
  /\ applications' = Arr(server.applications)
  /\ fetchState' = [fetchState EXCEPT !["applications"] = "resolved"]
  /\ UNCHANGED <<projects, environments, services, databases,
                 filterValue, searchText>>
  /\ Render(FALSE, TRUE)
  /\ UNCHANGED <<pc, items, server, cached, envCall, idVars, urlVars, deployVars,
                 deploymentVars, envViewVars, baseUrlVars>>

ServicesResolve ==
  /\ pc = "view"
  /\ ~EnvironmentsStale
  /\ fetchState["services"] = "loading"
  /\ services' = Arr(server.services)
  /\ fetchState' = [fetchState EXCEPT !["services"] = "resolved"]
  /\ UNCHANGED <<projects, environments, applications, databases,
                 filterValue, searchText>>
  /\ Render(FALSE, TRUE)
  /\ UNCHANGED <<pc, items, server, cached, envCall, idVars, urlVars, deployVars,
                 deploymentVars, envViewVars, baseUrlVars>>

DatabasesResolve ==
  /\ pc = "view"
  /\ ~EnvironmentsStale
  /\ fetchState["databases"] = "loading"
  /\ databases' = Arr(server.databases)
  /\ fetchState' = [fetchState EXCEPT !["databases"] = "resolved"]
  /\ UNCHANGED <<projects, environments, applications, services,
                 filterValue, searchText>>
  /\ Render(FALSE, TRUE)
  /\ UNCHANGED <<pc, items, server, cached, envCall, idVars, urlVars, deployVars,
                 deploymentVars, envViewVars, baseUrlVars>>

\* a fetch fails at the HTTP boundary: its data is what keepPreviousData
\* leaves, and the view renders again
FetchFails(f) ==
  /\ pc = "view"
  /\ ~EnvironmentsStale
  /\ fetchState[f] = "loading"
  /\ fetchState' = [fetchState EXCEPT ![f] = "failed"]
  /\ projects' = IF f = "projects" THEN DataAfterFailure(projects) ELSE projects
  /\ environments' =
       IF f = "environments" THEN DataAfterFailure(environments) ELSE environments
  /\ applications' =
       IF f = "applications" THEN DataAfterFailure(applications) ELSE applications
  /\ services' = IF f = "services" THEN DataAfterFailure(services) ELSE services
  /\ databases' = IF f = "databases" THEN DataAfterFailure(databases) ELSE databases
  /\ UNCHANGED <<filterValue, searchText>>
  /\ Render(environments' # environments,
            <<applications', services', databases'>>
              # <<applications, services, databases>>)
  /\ UNCHANGED <<pc, items, server, cached, envCall, idVars, urlVars, deployVars,
                 deploymentVars, envViewVars, baseUrlVars>>

\* the tokens the dropdown offers in this render
Offered ==
  {all}
    \cup (IF OrEmpty(projects) # <<>> THEN ProjectTokens(OrEmpty(projects))
          ELSE {})
    \cup EnvTokens(envNameToIds)
    \cup TypeTokens

\* List.Dropdown onChange={setFilterValue}, with a token of the dropdown
SetFilter(token) ==
  /\ pc = "view"
  /\ ~EnvironmentsStale
  /\ token \in Offered
  /\ token # filterValue
  /\ filterValue' = token
  /\ UNCHANGED <<projects, environments, applications, services, databases,
                 searchText>>
  /\ Render(FALSE, FALSE)
  /\ UNCHANGED <<pc, items, server, cached, fetchState, envCall,
                 idVars, urlVars, deployVars,
                 deploymentVars, envViewVars, baseUrlVars>>

\* onSearchTextChange={setSearchText}
SetSearch(text) ==
  /\ pc = "view"
  /\ ~EnvironmentsStale
  /\ text # searchText
  /\ searchText' = text
  /\ UNCHANGED <<projects, environments, applications, services, databases,
                 filterValue>>
  /\ Render(FALSE, FALSE)
  /\ UNCHANGED <<pc, items, server, cached, fetchState, envCall,
                 idVars, urlVars, deployVars,
                 deploymentVars, envViewVars, baseUrlVars>>

NextView ==
  \/ ProjectsResolve
  \/ EnvironmentsRestart
  \/ EnvironmentsResolve
  \/ ApplicationsResolve
  \/ ServicesResolve
  \/ DatabasesResolve
  \/ \E f \in FetchNames : FetchFails(f)
  \/ \E token \in ViewTokens : SetFilter(token)
  \/ \E text \in ViewSearches : SetSearch(text)

SpecView == InitView /\ [][NextView]_vars

(* -------------------- claims on the resources view --------------------- *)

\* C17: after any sequence of updates of the environment list, each of the
\* four indexes is its builder applied to the current environment list alone
\* (the empty list while it is absent): no entry of an earlier list is left.
C17_IndexesFollowEnvironments ==
  pc = "view" =>
    /\ envToProjectMap = buildEnvToProjectMap(OrEmpty(environments))
    /\ envNameMap = buildEnvNameMap(OrEmpty(environments))
    /\ envLookup = buildEnvLookup(OrEmpty(environments))
    /\ envNameToIds = buildEnvNameToIdsMap(OrEmpty(environments))

\* the cached environments "1", "2" and "10" (prod) were replaced by the
\* single environment "10" (dev)
C17_Witness ==
  /\ pc = "view"
  /\ cached.environments = Arr(fetchProjectEnvironments(ProjectsA))
  /\ environments = Arr(fetchProjectEnvironments(ProjectsC))
  /\ DOMAIN envLookup = {<<"1", "0">>}
  /\ envNameMap[<<"1", "0">>] = dev
  /\ DOMAIN envNameToIds = {dev}
  /\ DOMAIN envToProjectMap = {<<"1", "0">>}

\* every fetch has resolved and none is to be started again
AllResolved ==
  /\ \A f \in FetchNames : fetchState[f] = "resolved"
  /\ ~EnvironmentsStale

\* the environments of the projects the API returned
FetchedEnvironments == fetchProjectEnvironments(server.projects)

\* the aggregated resources of the lists the API returned
FetchedResources ==
  buildResources(server.applications, server.services, server.databases)

FetchedFiltered ==
  FilteredResources(FetchedResources, filterValue, searchText,
                    buildEnvToProjectMap(FetchedEnvironments),
                    buildEnvNameToIdsMap(FetchedEnvironments))

\* C18: the five fetches complete in any order; once all have completed, the
\* indexes, the aggregated resources and the filtered, grouped view are the
\* same for every order: those of the data the API returned, the filter
\* token and the search text; while data is absent the derived structures
\* are those of the empty inputs.
C18_OrderIndependent ==
  pc = "view" =>
    /\ AllResolved =>
         /\ projects = Arr(server.projects)
         /\ environments = Arr(FetchedEnvironments)
         /\ envToProjectMap = buildEnvToProjectMap(FetchedEnvironments)
         /\ envNameMap = buildEnvNameMap(FetchedEnvironments)
         /\ envLookup = buildEnvLookup(FetchedEnvironments)
         /\ envNameToIds = buildEnvNameToIdsMap(FetchedEnvironments)
         /\ resources = FetchedResources
         /\ filtered = FetchedFiltered
         /\ groupedResources =
              GroupedResources(FetchedFiltered,
                               buildEnvLookup(FetchedEnvironments),
                               buildEnvNameMap(FetchedEnvironments))
    /\ environments = Undefined =>
         /\ envToProjectMap = EmptyMap
         /\ envNameMap = EmptyMap
         /\ envLookup = EmptyMap
         /\ envNameToIds = EmptyMap
    /\ (applications = Undefined /\ services = Undefined /\ databases = Undefined)
         => resources = <<>> /\ filtered = <<>> /\ groupedResources = <<>>
    /\ Len(resources) = Len(OrEmpty(applications)) + Len(OrEmpty(services))
                          + Len(OrEmpty(databases))

\* the data of a list fetch
DataOf(f) ==
  CASE f = "projects" -> projects
    [] f = "applications" -> applications
    [] f = "services" -> services
    [] f = "databases" -> databases

\* the environment lists that were fetched with success before the
\* environments fetch failed: the one of the request cache, or the one the
\* first call of this run, made with the cached projects, returned
LastEnvironments ==
  {cached.environments,
   Arr(fetchProjectEnvironments(OrEmpty(cached.projects)))}

\* some fetch of the view has failed
SomeFailed == \E f \in FetchNames : fetchState[f] = "failed"

\* C19: while a fetch has failed its data is the data fetched last with
\* success (for a list fetch, what the request cache held), the four
\* indexes are all built from the one environment list, and the displayed
\* items are derived from the data held; the step in which a fetch fails
\* leaves the environment list, the four indexes and the displayed items
\* as they were.
C19_FailureKeepsData ==
  /\ [](pc = "view" /\ SomeFailed =>
          /\ \A f \in FetchNames \ {"environments"} :
               fetchState[f] = "failed" => DataOf(f) = cached[f]
          /\ fetchState["environments"] = "failed" =>
               environments \in LastEnvironments
          /\ envToProjectMap = buildEnvToProjectMap(OrEmpty(environments))
          /\ envNameMap = buildEnvNameMap(OrEmpty(environments))
          /\ envLookup = buildEnvLookup(OrEmpty(environments))
          /\ envNameToIds = buildEnvNameToIdsMap(OrEmpty(environments))
          /\ resources = Resources(applications, services, databases)
          /\ filtered = FilteredResources(resources, filterValue, searchText,
                                          envToProjectMap, envNameToIds)
          /\ groupedResources = GroupedResources(filtered, envLookup, envNameMap))
  /\ [][(pc = "view"
           /\ \E f \in FetchNames :
                fetchState[f] = "loading" /\ fetchState'[f] = "failed")
         => /\ environments' = environments
            /\ envToProjectMap' = envToProjectMap
            /\ envNameMap' = envNameMap
            /\ envLookup' = envLookup
            /\ envNameToIds' = envNameToIds
            /\ resources' = resources
            /\ filtered' = filtered
            /\ groupedResources' = groupedResources]_vars

\* the projects were replaced, the environments fetch started for them
\* failed, and the cached environments are still indexed and shown
C19_Witness ==
  /\ pc = "view"
  /\ fetchState["projects"] = "resolved"
  /\ fetchState["environments"] = "failed"
  /\ projects = Arr(ProjectsC)
  /\ cached.projects = Arr(ProjectsA)
  /\ environments = cached.environments
  /\ DOMAIN envLookup = {<<"1">>, <<"2">>, <<"1", "0">>}
  /\ groupedResources # <<>>

(* ------------------ specification: redeploy actions -------------------- *)

deployPath == <<"/", "d", "e", "p", "l", "o", "y", "?", "u", "u", "i", "d", "=">>

forceParam == <<"?", "f", "o", "r", "c", "e", "=", "t", "r", "u", "e">>

\* the path deployByUuid requests: `/deploy?uuid=${uuid}${params}`
DeployPath(uuid, force) ==
  LET params == IF force THEN forceParam ELSE <<>>
  IN deployPath \o uuid \o params

\* variant: the catch branch shows the success toast as well
DeployToastSuccess(settled, force) ==
  [style |-> "success",
   title |-> IF force THEN "Force redeploy triggered" ELSE "Redeploy triggered"]

\* the toast of the try branch (the request resolved) and of the catch
\* branch (it threw)
DeployToast(settled, force) ==
  IF settled = "resolved"
    THEN [style |-> "success",
          title |-> IF force THEN "Force redeploy triggered"
                    ELSE "Redeploy triggered"]
    ELSE [style |-> "failure",
          title |-> IF force THEN "Failed to force redeploy"
                    ELSE "Failed to redeploy"]

logsPath == <<"/", "a", "p", "p", "l", "i", "c", "a", "t", "i", "o", "n", "s", "/">>

linesParam == <<"/", "l", "o", "g", "s", "?", "l", "i", "n", "e", "s", "=">>

\* the number of lines Copy Logs asks for
CopiedLines == 1000

\* the path fetchApplicationLogs requests:
\* `/applications/${applicationUuid}/logs?lines=${lines}`
LogsPath(applicationUuid, lines) ==
  logsPath \o applicationUuid \o linesParam \o NatToString(lines)

\* a response object, with the logs property given
LogsObject(logs) == [k |-> "object", n |-> 0, s |-> <<>>, logs |-> logs]

\* a response object without a logs property
EmptyObject == [k |-> "object", n |-> 0, s |-> <<>>]

\* the logs fetchApplicationLogs returns for a response: the response when
\* it is a string, its logs property (?? "") when it is an object with one,
\* else ""
fetchApplicationLogs(response) ==
  IF response.k = "string" THEN response
  ELSE IF response.k = "object" /\ "logs" \in DOMAIN response
    THEN Coalesce(response.logs, Str(<<>>))
  ELSE Str(<<>>)

\* the toast Copy Logs ends with: of the catch branch when the request or
\* Clipboard.copy threw, "No logs returned" for empty logs, else "Copied logs"
LogsToast(settled, logs, copied) ==
  IF settled # "resolved"
    THEN [style |-> "failure", title |-> "Failed to fetch logs"]
  ELSE IF ~Truthy(logs)
    THEN [style |-> "failure", title |-> "No logs returned"]
  ELSE IF copied # "resolved"
    THEN [style |-> "failure", title |-> "Failed to fetch logs"]
  ELSE [style |-> "success", title |-> "Copied logs"]

\* the grave accent (U+0060), which a string literal cannot hold
grave == "grave"

codeFence == <<grave, grave, grave>>

noLogsReturned ==
  <<"N", "o", " ", "l", "o", "g", "s", " ", "r", "e", "t", "u", "r", "n",
    "e", "d", ".">>

\* the markdown of LogsDetail: the data between two code fences when
\* data?.trim() is truthy, else "No logs returned."
LogsDetailContent(data) ==
  IF data # Undefined /\ Trim(data.s) # <<>>
    THEN codeFence \o <<"\n">> \o data.s \o <<"\n">> \o codeFence
    ELSE noLogsReturned

\* what the logs request may answer
LogResponses ==
  {Str(<<"l", "i", "n", "e", " ", "1">>), Str(<<>>), Null, EmptyObject,
   LogsObject(Undefined), LogsObject(Str(<<"l", "i", "n", "e", " ", "1">>))}

\* the numbers of lines the Show Last Lines actions ask for
DetailLines == {100, 500}

\* the views with rows that offer actions: the resources view, the
\* applications, databases and services views, and the resources of one
\* environment
Views == {"view", "applications", "databases", "services", "environment"}

\* the rows on display, in order: the items of the sections of the
\* resources view, the filtered list of the other views
Rows ==
  IF pc = "view"
    THEN [k \in 1..Len(ItemsOfGroups(groupedResources)) |->
            ItemsOfGroups(groupedResources)[k].item]
    ELSE filtered

\* the row is on display
OnDisplay(item) == \E k \in 1..Len(Rows) : Rows[k] = item

\* the Redeploy submenu is rendered for a row with a truthy uuid
OffersDeploy(item) == Truthy(item.uuid)

\* Copy Logs and the Show Last Lines actions are rendered for a row with a
\* truthy uuid: in the resources view and in the view of one environment on
\* applications only, in the applications view on every row, in the
\* databases and the services view on none
OffersLogs(item) ==
  /\ Truthy(item.uuid)
  /\ pc \notin {"databases", "services"}
  /\ pc \in {"view", "environment"} => item.type = application

\* number of rows on display whose actions are run
MaxActionRows == 2

\* the first rows on display that offer an action
FirstOffering(action) ==
  LET Offers(item) == IF action = "deploy" THEN OffersDeploy(item)
                      ELSE OffersLogs(item)
      at == {k \in 1..Len(Rows) : Offers(Rows[k])}
  IN {Rows[k] : k \in {k \in at : Cardinality({j \in at : j < k})
                                     < MaxActionRows}}

\* the filters chosen while requests are sent
DeployTokens == {all, envPrefix \o prod}

\* the view mounted on a filled cache, the API holding other projects
InitDeploy ==
  /\ InitView
  /\ cached.projects # Undefined
  /\ server.projects = ProjectsC
  /\ server.applications = ViewApplications

\* the requests of one kind ("deploy" or "logs") sent so far
RequestsOf(kind) == SelectSeq(requests, LAMBDA r : r.kind = kind)

\* number of requests the actions of the resources view or of a list view
\* send in one run
MaxListRequests == 1

\* the run may send one more request of the kind: in the view of one
\* environment the deploy and the log requests are counted apart, so that
\* requests of both kinds are in flight together, in the other views they
\* are counted together
MaySend(kind) ==
  IF pc = "environment"
    THEN Len(RequestsOf(kind)) < (IF kind = "deploy" THEN MaxDeploys
                                  ELSE MaxLogs)
    ELSE Len(requests) < MaxListRequests

\* Redeploy / Force Redeploy of a row with a uuid: deployByUuid is called
Redeploy(item, force) ==
  /\ pc \in Views
  /\ ~EnvironmentsStale
  /\ MaySend("deploy")
  /\ OnDisplay(item)
  /\ OffersDeploy(item)
  /\ requests' = Append(requests,
                   [kind |-> "deploy", uuid |-> StringOf(item.uuid),
                    path |-> DeployPath(StringOf(item.uuid), force),
                    force |-> force, state |-> "pending",
                    copy |-> "none", detail |-> 0])
  /\ UNCHANGED <<deploymentVars, envViewVars, baseUrlVars>>
  /\ UNCHANGED <<toasts, clipboard, logsDetail, pc, idVars, envVars, indexVars,
                 filterVars, resourceVars, urlVars, groupVars, viewVars>>

\* the deploy request settles: the promise resolves or throws, and the
\* handler shows its toast
DeploySettles(i, settled) ==
  /\ pc \in Views
  /\ ~EnvironmentsStale
  /\ i \in 1..Len(requests)
  /\ requests[i].kind = "deploy"
  /\ requests[i].state = "pending"
  /\ requests' = [requests EXCEPT ![i].state = settled]
  /\ toasts' = Append(toasts, DeployToast(settled, requests[i].force))
  /\ UNCHANGED <<deploymentVars, envViewVars, baseUrlVars>>
  /\ UNCHANGED <<clipboard, logsDetail, pc, idVars, envVars, indexVars,
                 filterVars, resourceVars, urlVars, groupVars, viewVars>>

\* Copy Logs of a row that offers it: fetchApplicationLogs is called
CopyLogs(item) ==
  /\ pc \in Views
  /\ ~EnvironmentsStale
  /\ MaySend("logs")
  /\ OnDisplay(item)
  /\ OffersLogs(item)
  /\ requests' = Append(requests,
                   [kind |-> "logs", uuid |-> StringOf(item.uuid),
                    path |-> LogsPath(StringOf(item.uuid), CopiedLines),
                    force |-> FALSE, state |-> "pending",
                    copy |-> "none", detail |-> 0])
  /\ UNCHANGED <<deploymentVars, envViewVars, baseUrlVars>>
  /\ UNCHANGED <<toasts, clipboard, logsDetail, pc, idVars, envVars, indexVars,
                 filterVars, resourceVars, urlVars, groupVars, viewVars>>

\* the log request of Copy Logs settles: when it threw, or resolved without
\* logs, the handler shows its toast and ends; else it gives the logs to
\* Clipboard.copy and waits for it
LogsSettle(i, settled, response) ==
  /\ pc \in Views
  /\ ~EnvironmentsStale
  /\ i \in 1..Len(requests)
  /\ requests[i].kind = "logs"
  /\ requests[i].detail = 0
  /\ requests[i].state = "pending"
  /\ IF settled = "resolved" /\ Truthy(fetchApplicationLogs(response))
       THEN /\ requests' = [requests EXCEPT ![i].state = settled,
                                            ![i].copy = "pending"]
            /\ clipboard' = Append(clipboard, fetchApplicationLogs(response).s)
            /\ toasts' = toasts
       ELSE /\ requests' = [requests EXCEPT ![i].state = settled]
            /\ clipboard' = clipboard
            /\ toasts' = Append(toasts,
                           LogsToast(settled, fetchApplicationLogs(response),
                                     "none"))
  /\ UNCHANGED <<deploymentVars, envViewVars, baseUrlVars>>
  /\ UNCHANGED <<logsDetail, pc, idVars, envVars, indexVars, filterVars,
                 resourceVars, urlVars, groupVars, viewVars>>

\* Clipboard.copy settles: the handler shows "Copied logs", or the toast
\* of its catch branch when the copy was rejected
CopySettles(i, settled) ==
  /\ pc \in Views
  /\ ~EnvironmentsStale
  /\ i \in 1..Len(requests)
  /\ requests[i].copy = "pending"
  /\ requests' = [requests EXCEPT ![i].copy = settled]
  /\ toasts' = Append(toasts,
                 LogsToast(requests[i].state, Str(clipboard[Len(clipboard)]),
                           settled))
  /\ UNCHANGED <<deploymentVars, envViewVars, baseUrlVars>>
  /\ UNCHANGED <<clipboard, logsDetail, pc, idVars, envVars, indexVars,
                 filterVars, resourceVars, urlVars, groupVars, viewVars>>

\* Show Last 100 Lines / Show Last 500 Lines of a row that offers them:
\* LogsDetail is pushed, mounts without cached logs and starts its fetch
ShowLogs(item, lines) ==
  /\ pc \in Views
  /\ ~EnvironmentsStale
  /\ MaySend("logs")
  /\ OnDisplay(item)
  /\ OffersLogs(item)
  /\ logsDetail' = Append(logsDetail,
                     [applicationUuid |-> StringOf(item.uuid), lines |-> lines,
                      data |-> Undefined, isLoading |-> TRUE,
                      markdown |-> LogsDetailContent(Undefined)])
  /\ requests' = Append(requests,
                   [kind |-> "logs", uuid |-> StringOf(item.uuid),
                    path |-> LogsPath(StringOf(item.uuid), lines),
                    force |-> FALSE, state |-> "pending",
                    copy |-> "none", detail |-> Len(logsDetail) + 1])
  /\ UNCHANGED <<deploymentVars, envViewVars, baseUrlVars>>
  /\ UNCHANGED <<toasts, clipboard, pc, idVars, envVars, indexVars,
                 filterVars, resourceVars, urlVars, groupVars, viewVars>>

\* the fetch of a LogsDetail view settles: its data is the logs returned,
\* or what it was when the fetch failed, and the view renders
DetailSettles(i, settled, response) ==
  /\ pc \in Views
  /\ ~EnvironmentsStale
  /\ i \in 1..Len(requests)
  /\ requests[i].kind = "logs"
  /\ requests[i].detail > 0
  /\ requests[i].state = "pending"
  /\ requests' = [requests EXCEPT ![i].state = settled]
  /\ LET view == logsDetail[requests[i].detail]
         data == IF settled = "resolved" THEN fetchApplicationLogs(response)
                 ELSE view.data
     IN logsDetail' =
          [logsDetail EXCEPT ![requests[i].detail] =
             [view EXCEPT !.data = data, !.isLoading = FALSE,
                          !.markdown = LogsDetailContent(data)]]
  /\ UNCHANGED <<deploymentVars, envViewVars, baseUrlVars>>
  /\ UNCHANGED <<toasts, clipboard, pc, idVars, envVars, indexVars,
                 filterVars, resourceVars, urlVars, groupVars, viewVars>>

Settled == {"resolved", "thrown"}

NextDeploy ==
  \/ ProjectsResolve
  \/ EnvironmentsRestart
  \/ EnvironmentsResolve
  \/ ApplicationsResolve
  \/ ServicesResolve
  \/ DatabasesResolve
  \/ \E f \in FetchNames : FetchFails(f)
  \/ \E token \in DeployTokens : SetFilter(token)
  \/ \E text \in ViewSearches : SetSearch(text)
  \/ \E item \in FirstOffering("deploy"), force \in BOOLEAN :
       Redeploy(item, force)
  \/ \E i \in 1..Len(requests), settled \in Settled : DeploySettles(i, settled)
  \/ \E item \in FirstOffering("logs") : CopyLogs(item)
  \/ \E i \in 1..Len(requests), settled \in Settled, response \in LogResponses :
       LogsSettle(i, settled, response)
  \/ \E i \in 1..Len(requests), settled \in Settled : CopySettles(i, settled)
  \/ \E item \in FirstOffering("logs"), lines \in DetailLines :
       ShowLogs(item, lines)
  \/ \E i \in 1..Len(requests), settled \in Settled, response \in LogResponses :
       DetailSettles(i, settled, response)

\* the lists, the filter, the search text and the fetches
ListState ==
  <<projects, environments, applications, services, databases, resources,
    filterValue, searchText, filtered, groupedResources, fetchState, envCall,
    envToProjectMap, envNameMap, envLookup, envNameToIds>>

\* a step of Redeploy or Force Redeploy: a deploy request is sent, or one
\* that was sent changes
DeployStep ==
  \/ /\ Len(requests') > Len(requests)
     /\ requests'[Len(requests')].kind = "deploy"
  \/ /\ Len(requests') = Len(requests)
     /\ \E i \in 1..Len(requests) :
          requests[i].kind = "deploy" /\ requests'[i] # requests[i]

\* C20: Redeploy and Force Redeploy, whether the request resolves or throws,
\* leave the projects, environments and resource lists, the filter token and
\* the search text unchanged and start no list fetch; one deploy request is
\* sent, and one toast is shown when it settles: a success toast when it
\* resolved, a failure toast when it threw.
C20_RedeployFrame ==
  [][DeployStep =>
       /\ ListState' = ListState
       /\ clipboard' = clipboard
       /\ logsDetail' = logsDetail
       /\ \/ /\ Len(requests') = Len(requests) + 1
             /\ SubSeq(requests', 1, Len(requests)) = requests
             /\ requests'[Len(requests')].state = "pending"
             /\ toasts' = toasts
          \/ /\ Len(requests') = Len(requests)
             /\ Len(toasts') = Len(toasts) + 1
             /\ SubSeq(toasts', 1, Len(toasts)) = toasts
             /\ \E i \in 1..Len(requests) :
                  /\ requests[i].kind = "deploy"
                  /\ requests[i].state = "pending"
                  /\ requests'[i].state \in {"resolved", "thrown"}
                  /\ requests'[i].path = requests[i].path
                  /\ \A j \in 1..Len(requests) : j # i => requests'[j] = requests[j]
                  /\ toasts'[Len(toasts')].style =
                       (IF requests'[i].state = "resolved" THEN "success"
                        ELSE "failure")]_vars

\* in the applications view a force redeploy was requested while the
\* projects were still loading, with a filter and a search text set, and
\* threw: one request, one failure toast
C20_Witness ==
  /\ pc = "applications"
  /\ Len(requests) = 1
  /\ requests[1].kind = "deploy"
  /\ requests[1].state = "thrown"
  /\ requests[1].force
  /\ Len(toasts) = 1
  /\ toasts[1].style = "failure"
  /\ filterValue # all
  /\ searchText # <<>>
  /\ fetchState["projects"] = "loading"

(* ---------------------- claims on the deploy request ------------------- *)

\* the text of s behind the first c, none when s has no c
AfterFirst(s, c) ==
  IF \E i \in 1..Len(s) : s[i] = c
    THEN LET i == CHOOSE x \in 1..Len(s) :
                    s[x] = c /\ \A y \in 1..(x - 1) : s[y] # c
         IN SubSeq(s, i + 1, Len(s))
    ELSE <<>>

\* the text of s in front of the first c, all of s when it has no c
BeforeFirst(s, c) ==
  IF \E i \in 1..Len(s) : s[i] = c
    THEN LET i == CHOOSE x \in 1..Len(s) :
                    s[x] = c /\ \A y \in 1..(x - 1) : s[y] # c
         IN SubSeq(s, 1, i - 1)
    ELSE s

RECURSIVE SplitAt(_, _)
\* the parts of s between the occurrences of c
SplitAt(s, c) ==
  IF \A i \in 1..Len(s) : s[i] # c THEN <<s>>
  ELSE <<BeforeFirst(s, c)>> \o SplitAt(AfterFirst(s, c), c)

\* the query parameters of a path: what follows the first "?", split at "&",
\* each part a name and, behind its first "=", a value
QueryParams(path) ==
  LET parts == SplitAt(AfterFirst(path, "?"), "&")
  IN [i \in 1..Len(parts) |->
        [name |-> BeforeFirst(parts[i], "="), value |-> AfterFirst(parts[i], "=")]]

\* the values the query of path gives to the parameter name
QueryValues(path, name) ==
  {QueryParams(path)[i].value :
     i \in {j \in 1..Len(QueryParams(path)) : QueryParams(path)[j].name = name}}

\* C21: the request of deployByUuid goes to /deploy with a uuid query
\* parameter equal to the uuid given, without and with the force flag; with
\* force, force=true is a parameter of its own and the uuid value is as given.
C21_DeployQuery ==
  pc = "view" =>
    \A i \in {j \in 1..Len(requests) : requests[j].kind = "deploy"} :
      /\ BeforeFirst(requests[i].path, "?") = <<"/", "d", "e", "p", "l", "o", "y">>
      /\ QueryValues(requests[i].path, <<"u", "u", "i", "d">>) = {requests[i].uuid}
      /\ requests[i].force =>
           QueryValues(requests[i].path, <<"f", "o", "r", "c", "e">>)
             = {<<"t", "r", "u", "e">>}


(* --------- the applications, databases and services views ------------- *)

\* String(item.environment_id ?? ""): the environment the filters look at
FilterEnvId(item) == StringOf(Coalesce(item.environment_id, Str(<<>>)))

\* String(item.environment_id ?? item.environment_uuid ?? ""): the
\* environment a row is displayed under
DisplayEnvId(item) ==
  StringOf(Coalesce(Coalesce(item.environment_id, item.environment_uuid),
                    Str(<<>>)))

\* envToProjectMap.size > 0
hasEnvMapping(projectMap) == DOMAIN projectMap # {}

\* applyFilter of the applications view
applyFilterApplications(list, token, projectMap, hasMapping, nameToIds) ==
  IF token = all THEN list
  ELSE IF StartsWith(token, envPrefix) THEN
    LET envName == RemoveFirst(token, envPrefix)
        Keep(item) == FilterEnvId(item) \in nameToIds[envName]
    IN IF ~MapHas(nameToIds, envName) THEN <<>> ELSE SelectSeq(list, Keep)
  ELSE IF StartsWith(token, projectPrefix) THEN
    IF ~hasMapping THEN list
    ELSE LET projectId == RemoveFirst(token, projectPrefix)
             Keep(item) == /\ MapHas(projectMap, FilterEnvId(item))
                           /\ projectMap[FilterEnvId(item)] = projectId
         IN SelectSeq(list, Keep)
  ELSE list

\* applyFilter of the databases view
applyFilterDatabases(list, token, projectMap, nameToIds) ==
  IF token = all THEN list
  ELSE IF StartsWith(token, envPrefix) THEN
    LET envName == RemoveFirst(token, envPrefix)
        Keep(item) == FilterEnvId(item) \in nameToIds[envName]
    IN IF ~MapHas(nameToIds, envName) THEN <<>> ELSE SelectSeq(list, Keep)
  ELSE IF StartsWith(token, projectPrefix) THEN
    LET projectId == RemoveFirst(token, projectPrefix)
        Keep(item) == /\ MapHas(projectMap, FilterEnvId(item))
                      /\ projectMap[FilterEnvId(item)] = projectId
    IN SelectSeq(list, Keep)
  ELSE list

\* applyFilter of the services view
applyFilterServices(list, token, projectMap, nameToIds) ==
  IF token = all THEN list
  ELSE IF StartsWith(token, envPrefix) THEN
    LET envName == RemoveFirst(token, envPrefix)
        Keep(item) == FilterEnvId(item) \in nameToIds[envName]
    IN IF ~MapHas(nameToIds, envName) THEN <<>> ELSE SelectSeq(list, Keep)
  ELSE IF StartsWith(token, projectPrefix) THEN
    LET projectId == RemoveFirst(token, projectPrefix)
        Keep(item) == /\ MapHas(projectMap, FilterEnvId(item))
                      /\ projectMap[FilterEnvId(item)] = projectId
    IN SelectSeq(list, Keep)
  ELSE list

\* the text an application is searched in
ApplicationHaystack(item) ==
  ToLowerCase(JoinTruthy(<<Field(item, "name"), Field(item, "git_repository"),
                           Field(item, "git_branch"), Field(item, "fqdn"),
                           Field(item, "uuid")>>))

\* the text a database is searched in
DatabaseHaystack(item) ==
  ToLowerCase(JoinTruthy(<<Field(item, "name"), Field(item, "description"),
                           Field(item, "db_type"), Field(item, "uuid")>>))

\* the text a service is searched in
ServiceHaystack(item) ==
  ToLowerCase(JoinTruthy(<<Field(item, "name"), Field(item, "description"),
                           Field(item, "service_type"), Field(item, "uuid")>>))

\* the filteredApplications memo
FilteredApplications(list, token, text, projectMap, nameToIds) ==
  LET lower == ToLowerCase(Trim(text))
      withFilter == applyFilterApplications(list, token, projectMap,
                                            hasEnvMapping(projectMap), nameToIds)
      Matches(item) == Occurrences(ApplicationHaystack(item), lower) # {}
  IN IF lower = <<>> THEN withFilter ELSE SelectSeq(withFilter, Matches)

\* the filteredDatabases memo
FilteredDatabases(list, token, text, projectMap, nameToIds) ==
  LET lower == ToLowerCase(Trim(text))
      withFilter == applyFilterDatabases(list, token, projectMap, nameToIds)
      Matches(item) == Occurrences(DatabaseHaystack(item), lower) # {}
  IN IF lower = <<>> THEN withFilter ELSE SelectSeq(withFilter, Matches)

\* the filteredServices memo
FilteredServices(list, token, text, projectMap, nameToIds) ==
  LET lower == ToLowerCase(Trim(text))
      withFilter == applyFilterServices(list, token, projectMap, nameToIds)
      Matches(item) == Occurrences(ServiceHaystack(item), lower) # {}
  IN IF lower = <<>> THEN withFilter ELSE SelectSeq(withFilter, Matches)

(* ----------------------- the deployments view -------------------------- *)

\* String(v), also for null
TextOf(v) == IF v = Null THEN <<"n", "u", "l", "l">> ELSE StringOf(v)

\* String(deployment.source_app_uuid ?? deployment.application_uuid
\*          ?? deployment.application_id ?? "")
resolveAppKey(deployment) ==
  TextOf(Coalesce(Coalesce(Coalesce(Field(deployment, "source_app_uuid"),
                                    Field(deployment, "application_uuid")),
                           Field(deployment, "application_id")),
                  Str(<<>>)))

\* variant: the deployment's own environment fields come first
resolveEnvIdOwnFirst(deployment, appMap, appKey) ==
  LET direct == toId(Coalesce(deployment.environment_id,
                              deployment.environment_uuid))
  IN IF direct # Null THEN direct.s
     ELSE IF MapHas(appMap, appKey) THEN appMap[appKey] ELSE <<>>

resolveEnvId(deployment, appMap, appKey) ==
  LET fromMap == IF MapHas(appMap, appKey) THEN Str(appMap[appKey]) ELSE Undefined
      direct == toId(Coalesce(deployment.environment_id,
                              deployment.environment_uuid))
  IN IF Truthy(fromMap) THEN fromMap.s ELSE Coalesce(direct, Str(<<>>)).s

RECURSIVE AppIdToEnvIdLoop(_, _)
AppIdToEnvIdLoop(map, apps) ==
  IF apps = <<>> THEN map
  ELSE LET a == Head(apps)
           envId == Coalesce(toId(Coalesce(a.environment_id, a.environment_uuid)),
                             Str(<<>>)).s
           byId == IF a.id # Undefined /\ envId # <<>>
                     THEN MapSet(map, TextOf(a.id), envId) ELSE map
           byUuid == IF Truthy(a.uuid) /\ envId # <<>>
                       THEN MapSet(byId, TextOf(a.uuid), envId) ELSE byId
       IN AppIdToEnvIdLoop(byUuid, Tail(apps))

\* the appIdToEnvId memo
buildAppIdToEnvId(apps) == AppIdToEnvIdLoop(EmptyMap, apps)

statusActive == <<"s", "t", "a", "t", "u", "s", ":", "a", "c", "t", "i", "v", "e">>

ACTIVE_STATUSES ==
  { <<"r", "u", "n", "n", "i", "n", "g">>,
    <<"q", "u", "e", "u", "e", "d">>,
    <<"p", "e", "n", "d", "i", "n", "g">> }

\* applyFilter of the deployments view
applyFilterDeployments(list, token, projectMap, nameToIds, appMap) ==
  LET EnvOf(item) == resolveEnvId(item, appMap, resolveAppKey(item))
  IN IF token = all THEN list
     ELSE IF token = statusActive THEN
       LET Keep(item) ==
             ToLowerCase(Coalesce(item.status, Str(<<>>)).s) \in ACTIVE_STATUSES
       IN SelectSeq(list, Keep)
     ELSE IF StartsWith(token, projectPrefix) THEN
       LET projectId == RemoveFirst(token, projectPrefix)
           Keep(item) == /\ MapHas(projectMap, EnvOf(item))
                         /\ projectMap[EnvOf(item)] = projectId
       IN SelectSeq(list, Keep)
     ELSE IF StartsWith(token, envPrefix) THEN
       LET envName == RemoveFirst(token, envPrefix)
           Keep(item) == EnvOf(item) \in nameToIds[envName]
       IN IF ~MapHas(nameToIds, envName) THEN <<>> ELSE SelectSeq(list, Keep)
     ELSE list

\* new Date(created_at).getTime(), 0 without created_at; the field holds the
\* time its date string stands for
TimeOf(deployment) ==
  IF Truthy(deployment.created_at) THEN deployment.created_at.n ELSE 0

\* a deployment is put behind those that are not older than it
InsertByTime(sorted, d) ==
  LET n == Cardinality({i \in 1..Len(sorted) : TimeOf(d) - TimeOf(sorted[i]) <= 0})
  IN SubSeq(sorted, 1, n) \o <<d>> \o SubSeq(sorted, n + 1, Len(sorted))

RECURSIVE SortByTime(_)
\* [...list].sort((a, b) => bTime - aTime): newest first, stable
SortByTime(list) ==
  IF list = <<>> THEN <<>>
  ELSE InsertByTime(SortByTime(SubSeq(list, 1, Len(list) - 1)), list[Len(list)])

\* the text a deployment is searched in
DeploymentHaystack(item) ==
  ToLowerCase(JoinTruthy(<<Field(item, "application_name"),
                           Field(item, "commit_message"),
                           Field(item, "commit"), Field(item, "status")>>))

\* the filteredDeployments memo
FilteredDeployments(list, token, text, projectMap, nameToIds, appMap) ==
  LET lower == ToLowerCase(Trim(text))
      withFilter == applyFilterDeployments(list, token, projectMap, nameToIds, appMap)
      sorted == SortByTime(withFilter)
      Matches(item) == Occurrences(DeploymentHaystack(item), lower) # {}
  IN IF lower = <<>> THEN sorted ELSE SelectSeq(sorted, Matches)

\* the rows of a response: the array itself, or its deployments or data
RowsOf(response) ==
  IF response.k = "array" THEN response.s
  ELSE Coalesce(Coalesce(Field(response, "deployments"), Field(response, "data")),
                Arr(<<>>)).s

\* a request that was rejected
Rejected == [k |-> "rejected"]

\* the fetch function rejects: it resolves with no list
Rejects == [threw |-> TRUE, value |-> <<>>]

\* the rows of the answer to the request of one uuid, each tagged with
\* that uuid: list.map((row) => ({ ...row, source_app_uuid: uuid }))
TaggedRows(response, uuid) ==
  [i \in 1..Len(RowsOf(response)) |->
     [f \in DOMAIN RowsOf(response)[i] \cup {"source_app_uuid"} |->
        IF f = "source_app_uuid" THEN uuid ELSE RowsOf(response)[i][f]]]

RECURSIVE Flat(_)
\* results.flat()
Flat(lists) == IF lists = <<>> THEN <<>> ELSE Head(lists) \o Flat(Tail(lists))

\* the fetch function of the deployments: one request per application with
\* a uuid, each with its own answer (answers maps the uuid to it); no
\* request gives the empty list, a rejected request rejects Promise.all,
\* else the tagged lists are joined in application order
fetchDeployments(apps, answers) ==
  LET appUuids == SelectSeq([i \in 1..Len(apps) |-> apps[i].uuid], Truthy)
  IN IF appUuids = <<>> THEN Returns(<<>>)
     ELSE IF \E i \in 1..Len(appUuids) : answers[appUuids[i].s] = Rejected
       THEN Rejects
     ELSE Returns(Flat([i \in 1..Len(appUuids) |->
                          TaggedRows(answers[appUuids[i].s], appUuids[i])]))

\* the argument list of the deployments fetch: [applications?.length ?? 0]
DeploymentsArgs(data) == Len(OrEmpty(data))

(* --- specification: the applications, databases and services views ---- *)

\* the views with one list and a filter
ListViews == {"applications", "databases", "services", "deployments"}

\* the fetch of the rows of the open view, or of what they are fetched for
ItemsFetch(view) == IF view = "deployments" THEN "applications" ELSE view

\* the fetches of the view that is open
ListFetches(view) ==
  {"projects", "environments", ItemsFetch(view)}
    \cup (IF view = "deployments" THEN {"deployments"} ELSE {})

\* one project with a numeric environment id, one with a uuid-only one
ProjectsE ==
  <<P1(<<Env(Num(1), NoRef, Str(prod), NoRef, NoRef)>>),
    P2(<<Env(NoRef, Str(<<"e", "4">>), Str(dev), NoRef, NoRef)>>)>>

\* applications that refer to their environment by id, by uuid, or not at all
ListApplications ==
  <<App(Num(1), Str(<<"u", "a">>), Str(<<"A", "p", "p">>),
        Str(<<"a", ".", "c", "o", "m">>), Num(1)),
    [App(Num(2), Undefined, Str(<<"W", "e", "b">>), Undefined, Undefined)
       EXCEPT !.environment_uuid = Str(<<"e", "4">>)],
    App(Num(3), Str(<<"u", "c">>), Str(<<"J", "o", "b">>), Undefined, Undefined)>>

ListDatabases ==
  <<Resource(Num(1), Str(<<"u", "d">>), Str(<<"D", "b">>), Str(<<"e", "4">>)),
    [Resource(Num(2), Str(<<"u", "e">>), Str(<<"P", "g">>), Undefined)
       EXCEPT !.environment_uuid = Str(<<"e", "4">>)]>>

\* services that refer to their environment by id, or by uuid alone
ListServices ==
  <<Resource(Num(1), Str(<<"u", "s">>), Str(<<"S", "v", "c">>), Num(1)),
    [Resource(Num(2), Undefined, Str(<<"W", "e", "b">>), Undefined)
       EXCEPT !.environment_uuid = Str(<<"e", "4">>)]>>

\* what the API may hold during a run of a list view
ListServers ==
  [projects : {<<>>, ProjectsE},
   applications : {ListApplications, <<>>},
   databases : {ListDatabases},
   services : {ListServices}]

\* the request cache at mount: empty, or filled by an earlier run
ListCaches ==
  { [projects |-> Undefined, environments |-> Undefined,
     applications |-> Undefined, databases |-> Undefined,
     services |-> Undefined],
    [projects |-> Arr(ProjectsE),
     environments |-> Arr(fetchProjectEnvironments(ProjectsE)),
     applications |-> Arr(SubSeq(ListApplications, 1, 2)),
     databases |-> Arr(ListDatabases),
     services |-> Arr(SubSeq(ListServices, 1, 1))] }

ListSearches == {<<>>, <<"W", "e", "b", " ">>}

\* the list the open view filters
ListData(view, apps, dbs, svcs, deps) ==
  IF view = "applications" THEN OrEmpty(apps)
  ELSE IF view = "databases" THEN OrEmpty(dbs)
  ELSE IF view = "services" THEN OrEmpty(svcs)
  ELSE OrEmpty(deps)

\* the filtered list of the open view
ListFiltered(view, data, token, text, projectMap, nameToIds, appMap) ==
  IF view = "applications"
    THEN FilteredApplications(data, token, text, projectMap, nameToIds)
  ELSE IF view = "databases"
    THEN FilteredDatabases(data, token, text, projectMap, nameToIds)
  ELSE IF view = "services"
    THEN FilteredServices(data, token, text, projectMap, nameToIds)
  ELSE FilteredDeployments(data, token, text, projectMap, nameToIds, appMap)

\* the derived structures of one render of a list view; the databases and
\* the services view build no id-to-name map, the deployments view alone
\* maps the applications to their environments
ListRender(environmentsChanged) ==
  /\ envToProjectMap' = UseMemo(envToProjectMap, environmentsChanged,
                                buildEnvToProjectMap(OrEmpty(environments')))
  /\ envNameMap' =
       IF pc \notin {"databases", "services"}
         THEN UseMemo(envNameMap, environmentsChanged,
                      buildEnvNameMap(OrEmpty(environments')))
         ELSE envNameMap
  /\ envLookup' = UseMemo(envLookup, environmentsChanged,
                          buildEnvLookup(OrEmpty(environments')))
  /\ envNameToIds' = UseMemo(envNameToIds, environmentsChanged,
                             buildEnvNameToIdsMap(OrEmpty(environments')))
  /\ appIdToEnvId' =
       IF pc = "deployments"
         THEN UseMemo(appIdToEnvId, applications' # applications,
                      buildAppIdToEnvId(OrEmpty(applications')))
         ELSE appIdToEnvId
  /\ filtered' = ListFiltered(pc,
                              ListData(pc, applications', databases',
                                       services', deployments'),
                              filterValue', searchText',
                              envToProjectMap', envNameToIds', appIdToEnvId')

\* the render gave the deployments fetch another argument list than the
\* one its latest call was started with
DeploymentsStale ==
  /\ pc = "deployments"
  /\ DeploymentsArgs(applications) # DeploymentsArgs(Arr(appsCall))

\* an effect of the last render is still to start a fetch again
ListStale == EnvironmentsStale \/ DeploymentsStale

\* the first render of the applications, the databases or the services view
InitList ==
  /\ pc \in {"applications", "databases", "services"}
  /\ server \in ListServers
  /\ cached \in ListCaches
  /\ projects = cached.projects
  /\ environments = cached.environments
  /\ applications = IF pc = "applications" THEN cached.applications ELSE Undefined
  /\ databases = IF pc = "databases" THEN cached.databases ELSE Undefined
  /\ services = IF pc = "services" THEN cached.services ELSE Undefined
  /\ fetchState = [f \in ListFetches(pc) |-> "loading"]
  /\ envCall = OrEmpty(projects)
  /\ filterValue = all
  /\ searchText = <<>>
  /\ envToProjectMap = buildEnvToProjectMap(OrEmpty(environments))
  /\ envNameMap = IF pc = "applications"
                    THEN buildEnvNameMap(OrEmpty(environments)) ELSE EmptyMap
  /\ envLookup = buildEnvLookup(OrEmpty(environments))
  /\ envNameToIds = buildEnvNameToIdsMap(OrEmpty(environments))
  /\ filtered = ListFiltered(pc,
                             ListData(pc, applications, databases, services,
                                      deployments),
                             filterValue, searchText,
                             envToProjectMap, envNameToIds, appIdToEnvId)
  /\ resources = <<>>
  /\ items = <<>>
  /\ IdIdle
  /\ UrlIdle
  /\ GroupIdle
  /\ DeployIdle

\* the /projects fetch of a list view resolves and the view renders with
\* the new projects
ListProjectsResolve ==
  /\ pc \in ListViews
  /\ ~ListStale
  /\ fetchState["projects"] = "loading"
  /\ projects' = Arr(server.projects)
  /\ fetchState' = [fetchState EXCEPT !["projects"] = "resolved"]
  /\ UNCHANGED <<environments, applications, services, databases,
                 filterValue, searchText>>
  /\ UNCHANGED deployments
  /\ ListRender(FALSE)
  /\ UNCHANGED <<pc, items, resources, server, cached, envCall,
                 idVars, urlVars, groupVars, deployVars,
                 appsCall, envViewVars, baseUrlVars>>

\* the effect behind a render with a changed argument list starts the
\* environments fetch of a list view again
ListEnvironmentsRestart ==
  /\ pc \in ListViews
  /\ EnvironmentsStale
  /\ fetchState' = [fetchState EXCEPT !["environments"] = "loading"]
  /\ envCall' = OrEmpty(projects)
  /\ UNCHANGED <<projects, environments, applications, services, databases,
                 filterValue, searchText>>
  /\ UNCHANGED deployments
  /\ ListRender(FALSE)
  /\ UNCHANGED <<pc, items, resources, server, cached,
                 idVars, urlVars, groupVars, deployVars,
                 appsCall, envViewVars, baseUrlVars>>

\* the environments fetch of a list view resolves
ListEnvironmentsResolve ==
  /\ pc \in ListViews
  /\ ~ListStale
  /\ fetchState["environments"] = "loading"
  /\ environments' = Arr(fetchProjectEnvironments(envCall))
  /\ fetchState' = [fetchState EXCEPT !["environments"] = "resolved"]
  /\ UNCHANGED <<projects, applications, services, databases,
                 filterValue, searchText>>
  /\ UNCHANGED deployments
  /\ ListRender(TRUE)
  /\ UNCHANGED <<pc, items, resources, server, cached, envCall,
                 idVars, urlVars, groupVars, deployVars,
                 appsCall, envViewVars, baseUrlVars>>

\* the /applications, /databases or /services fetch resolves
ListItemsResolve ==
  /\ pc \in ListViews
  /\ ~ListStale
  /\ fetchState[ItemsFetch(pc)] = "loading"
  /\ applications' = IF ItemsFetch(pc) = "applications"
                       THEN Arr(server.applications) ELSE applications
  /\ databases' = IF pc = "databases" THEN Arr(server.databases) ELSE databases
  /\ services' = IF pc = "services" THEN Arr(server.services) ELSE services
  /\ fetchState' = [fetchState EXCEPT ![ItemsFetch(pc)] = "resolved"]
  /\ UNCHANGED <<projects, environments, filterValue, searchText>>
  /\ UNCHANGED deployments
  /\ ListRender(FALSE)
  /\ UNCHANGED <<pc, items, resources, server, cached, envCall,
                 idVars, urlVars, groupVars, deployVars,
                 appsCall, envViewVars, baseUrlVars>>

\* a fetch of a list view fails at the HTTP boundary: its data is what
\* keepPreviousData leaves
ListFetchFails(f) ==
  /\ pc \in ListViews
  /\ ~ListStale
  /\ f \in ListFetches(pc) \ {"deployments"}
  /\ fetchState[f] = "loading"
  /\ fetchState' = [fetchState EXCEPT ![f] = "failed"]
  /\ projects' = IF f = "projects" THEN DataAfterFailure(projects) ELSE projects
  /\ environments' =
       IF f = "environments" THEN DataAfterFailure(environments) ELSE environments
  /\ applications' =
       IF f = "applications" THEN DataAfterFailure(applications) ELSE applications
  /\ databases' = IF f = "databases" THEN DataAfterFailure(databases) ELSE databases
  /\ services' = IF f = "services" THEN DataAfterFailure(services) ELSE services
  /\ UNCHANGED <<filterValue, searchText>>
  /\ UNCHANGED deployments
  /\ ListRender(environments' # environments)
  /\ UNCHANGED <<pc, items, resources, server, cached, envCall,
                 idVars, urlVars, groupVars, deployVars,
                 appsCall, envViewVars, baseUrlVars>>

\* the tokens the dropdown offers in this render; the applications view
\* lists the projects only while the environment-to-project map has entries
ListOffered ==
  {all}
    \cup (IF pc = "deployments" THEN {statusActive} ELSE {})
    \cup (IF OrEmpty(projects) # <<>>
             /\ (pc = "applications" => hasEnvMapping(envToProjectMap))
            THEN ProjectTokens(OrEmpty(projects)) ELSE {})
    \cup EnvTokens(envNameToIds)

\* List.Dropdown onChange={setFilterValue}, with a token of the dropdown
ListSetFilter(token) ==
  /\ pc \in ListViews
  /\ ~ListStale
  /\ token \in ListOffered
  /\ token # filterValue
  /\ filterValue' = token
  /\ UNCHANGED <<projects, environments, applications, services, databases,
                 searchText>>
  /\ UNCHANGED deployments
  /\ ListRender(FALSE)
  /\ UNCHANGED <<pc, items, resources, server, cached, fetchState, envCall,
                 idVars, urlVars, groupVars, deployVars,
                 appsCall, envViewVars, baseUrlVars>>

\* onSearchTextChange={setSearchText}
ListSetSearch(text) ==
  /\ pc \in ListViews
  /\ ~ListStale
  /\ text # searchText
  /\ searchText' = text
  /\ UNCHANGED <<projects, environments, applications, services, databases,
                 filterValue>>
  /\ UNCHANGED deployments
  /\ ListRender(FALSE)
  /\ UNCHANGED <<pc, items, resources, server, cached, fetchState, envCall,
                 idVars, urlVars, groupVars, deployVars,
                 appsCall, envViewVars, baseUrlVars>>

NextList ==
  \/ ListProjectsResolve
  \/ ListEnvironmentsRestart
  \/ ListEnvironmentsResolve
  \/ ListItemsResolve
  \/ \E f \in FetchNames : ListFetchFails(f)
  \/ \E token \in ListOffered : ListSetFilter(token)
  \/ \E text \in ListSearches : ListSetSearch(text)
  \/ \E item \in FirstOffering("deploy"), force \in BOOLEAN :
       Redeploy(item, force)
  \/ \E i \in 1..Len(requests), settled \in Settled : DeploySettles(i, settled)
  \/ \E item \in FirstOffering("logs") : CopyLogs(item)
  \/ \E i \in 1..Len(requests), settled \in Settled, response \in LogResponses :
       LogsSettle(i, settled, response)
  \/ \E i \in 1..Len(requests), settled \in Settled : CopySettles(i, settled)
  \/ \E item \in FirstOffering("logs"), lines \in DetailLines :
       ShowLogs(item, lines)
  \/ \E i \in 1..Len(requests), settled \in Settled, response \in LogResponses :
       DetailSettles(i, settled, response)

SpecList == InitList /\ [][NextList]_vars

(* ------------ claims on the applications and databases views ----------- *)

\* the project token that is selected, without its prefix
SelectedProject == RemoveFirst(filterValue, projectPrefix)

\* C22: in the applications view, under a project:<id> token every
\* application that is kept has an environment that the environment-to-project
\* map sends to <id>, also while the map is empty.
C22_ProjectKeepsOnlyMapped ==
  (pc = "applications" /\ StartsWith(filterValue, projectPrefix)) =>
    \A i \in 1..Len(filtered) :
      /\ MapHas(envToProjectMap, FilterEnvId(filtered[i]))
      /\ envToProjectMap[FilterEnvId(filtered[i])] = SelectedProject


(* ------------------ claims on superseded project lists ----------------- *)

\* the environments of the projects list the view holds now
CurrentEnvironments == fetchProjectEnvironments(OrEmpty(projects))

\* C23: once every fetch of the resources view has settled, the environment
\* list and the four indexes are those of the projects list the view holds,
\* also when that list replaced one of the same length.
C23_EnvironmentsOfCurrentProjects ==
  (pc = "view" /\ AllResolved) =>
    /\ envCall = OrEmpty(projects)
    /\ environments = Arr(CurrentEnvironments)
    /\ envToProjectMap = buildEnvToProjectMap(CurrentEnvironments)
    /\ envNameMap = buildEnvNameMap(CurrentEnvironments)
    /\ envLookup = buildEnvLookup(CurrentEnvironments)
    /\ envNameToIds = buildEnvNameToIdsMap(CurrentEnvironments)


(* ----------------- claims on the two name indexes ---------------------- *)

\* the display names of the records with canonical key k
NamesOfKey(k) ==
  {EnvName(environments[i]) :
     i \in {j \in KeyedPositions : EnvKey(environments[j]).s = k}}

\* the display name of the last record with canonical key k
LastNameOfKey(k) ==
  LET last == CHOOSE i \in KeyedPositions :
                /\ EnvKey(environments[i]).s = k
                /\ \A j \in KeyedPositions :
                     EnvKey(environments[j]).s = k => j <= i
  IN EnvName(environments[last])

\* C24 as stated: for every name n and every key k in envNameToIds[n],
\* envNameMap[k] = n, and every key k of envNameMap is a member of
\* envNameToIds[envNameMap[k]], also when two records share a canonical key.
C24_Original ==
  pc = "indexed" =>
    /\ \A n \in DOMAIN envNameToIds :
         \A k \in envNameToIds[n] : MapHas(envNameMap, k) /\ envNameMap[k] = n
    /\ \A k \in DOMAIN envNameMap :
         /\ MapHas(envNameToIds, envNameMap[k])
         /\ k \in envNameToIds[envNameMap[k]]

\* C24 (amended): every key k of envNameMap is a member of
\* envNameToIds[envNameMap[k]], and envNameMap[k] is the display name of the
\* last record with key k; every key k in envNameToIds[n] is a key of
\* envNameMap and n is the display name of some record with key k, so that
\* envNameMap[k] = n whenever the records with key k all have the same name.
C24_NameIndexesAgree ==
  pc = "indexed" =>
    /\ \A k \in DOMAIN envNameMap :
         /\ MapHas(envNameToIds, envNameMap[k])
         /\ k \in envNameToIds[envNameMap[k]]
         /\ envNameMap[k] = LastNameOfKey(k)
    /\ \A n \in DOMAIN envNameToIds :
         \A k \in envNameToIds[n] :
           /\ MapHas(envNameMap, k)
           /\ n \in NamesOfKey(k)
           /\ NamesOfKey(k) = {n} => envNameMap[k] = n

\* the records 1/prod and "1"/dev share the key "1": the key is listed under
\* both names and named dev; the key "2" is listed under prod only
C24_Witness ==
  /\ pc = "indexed"
  /\ MapHas(envNameMap, <<"1">>)
  /\ MapHas(envNameMap, <<"2">>)
  /\ NamesOfKey(<<"1">>) = {prod, dev}
  /\ envNameMap[<<"1">>] = dev
  /\ envNameToIds[prod] = {<<"1">>, <<"2">>}
  /\ envNameToIds[dev] = {<<"1">>}


(* ------------------ claims on the sections of the view ----------------- *)

\* the positions (section, row) of the grouped view
GroupPositions ==
  {gr \in (1..Len(groupedResources)) \X (1..MaxItems) :
     gr[2] <= Len(groupedResources[gr[1]].items)}

GroupedItem(gr) == groupedResources[gr[1]].items[gr[2]].item

\* the item's environment is in envLookup: it resolves to a project
Resolved(item) == MapHas(envLookup, ItemEnvId(item))

\* every filtered item is shown once, and the sections are in strictly
\* ascending order of their names
SectionsPartitionInOrder ==
  LET shown == ItemsOfGroups(groupedResources)
  IN /\ Len(shown) = Len(filtered)
     /\ \E from \in Rearrangements(Len(filtered)) :
          \A k \in 1..Len(shown) : shown[k].item = filtered[from[k]]
     /\ \A g \in 1..Len(groupedResources) : groupedResources[g].items # <<>>
     /\ \A g, h \in 1..Len(groupedResources) :
          g < h => LocaleCompare(groupedResources[g].projectName,
                                 groupedResources[h].projectName) < 0

\* C25 as stated: every filtered item is in exactly one section, the sections
\* are in ascending project-name order, two resources whose environments
\* belong to projects with different canonical ids never share a section, and
\* a resource that resolves to a project is never in the section "Unassigned".
C25_Original ==
  pc = "grouped" =>
    /\ SectionsPartitionInOrder
    /\ \A x, y \in GroupPositions :
         (/\ x[1] = y[1]
          /\ MapHas(envToProjectMap, ItemEnvId(GroupedItem(x)))
          /\ MapHas(envToProjectMap, ItemEnvId(GroupedItem(y))))
           => envToProjectMap[ItemEnvId(GroupedItem(x))]
                = envToProjectMap[ItemEnvId(GroupedItem(y))]
    /\ \A x \in GroupPositions :
         Resolved(GroupedItem(x)) => groupedResources[x[1]].projectName # Unassigned

\* C25 (amended): every filtered item is in exactly one section, the sections
\* are in ascending project-name order with no name twice, and a section
\* holds exactly the shown resources whose owning project has the section's
\* display name ("Unassigned" for an unresolved resource): two resources
\* share a section exactly when these names are equal, whatever the
\* canonical ids of their projects, and a resolved resource is in the
\* section "Unassigned" only if its project has that name.
C25_SectionsByProjectName ==
  pc = "grouped" =>
    /\ SectionsPartitionInOrder
    /\ \A x \in GroupPositions :
         groupedResources[x[1]].projectName = OwnerName(GroupedItem(x))
    /\ \A x, y \in GroupPositions :
         x[1] = y[1] <=> OwnerName(GroupedItem(x)) = OwnerName(GroupedItem(y))
    /\ \A x \in GroupPositions :
         (Resolved(GroupedItem(x))
            /\ groupedResources[x[1]].projectName = Unassigned)
           => envLookup[ItemEnvId(GroupedItem(x))].projectName = Str(Unassigned)

\* the service of project 2 and the database of project 10, both projects
\* named "Q", are shown in the one section "Q"
C25_Witness ==
  /\ pc = "grouped"
  /\ Len(filtered) = 2
  /\ Len(groupedResources) = 1
  /\ groupedResources[1].projectName = <<"Q">>
  /\ MapHas(envToProjectMap, ItemEnvId(GroupedItem(<<1, 1>>)))
  /\ MapHas(envToProjectMap, ItemEnvId(GroupedItem(<<1, 2>>)))
  /\ envToProjectMap[ItemEnvId(GroupedItem(<<1, 1>>))] = <<"2">>
  /\ envToProjectMap[ItemEnvId(GroupedItem(<<1, 2>>))] = <<"1", "0">>


(* ----------- claims on filtering against what is displayed ------------- *)

\* the rows of the open list view before any filter
ListRows == ListData(pc, applications, databases, services,
                                      deployments)

\* the row is kept by the filter that is selected
Kept(row) == \E i \in 1..Len(filtered) : filtered[i] = row

\* C26: in the applications and databases views, with no search text, a row
\* that is displayed under an environment E (found in envLookup under
\* environment_id, else environment_uuid) is kept when the token is env:<name
\* of E> and when it is project:<canonical id of the project of E>.
C26_FilterFollowsDisplay ==
  (pc \in {"applications", "databases"} /\ Trim(searchText) = <<>>) =>
    \A i \in 1..Len(ListRows) :
      LET row == ListRows[i]
          envId == DisplayEnvId(row)
      IN MapHas(envLookup, envId) =>
           /\ filterValue = envPrefix \o EnvName(envLookup[envId]) => Kept(row)
           /\ (MapHas(envToProjectMap, envId)
                 /\ filterValue = projectPrefix \o envToProjectMap[envId])
                => Kept(row)


(* ---------------- specification: the deployments view ------------------ *)

\* number of applications the deployments are fetched for
MaxApps == 2

DeploymentApp(id, uuid, environment_id, environment_uuid) ==
  [id |-> id, uuid |-> uuid, environment_id |-> environment_id,
   environment_uuid |-> environment_uuid]

\* applications that refer to their environment by id, by uuid, not at
\* all or by a blank id, and one without a uuid
DeploymentApps ==
  << DeploymentApp(Num(1), Str(<<"u", "a">>), Num(1), Undefined),
     DeploymentApp(Num(2), Str(<<"u", "b">>), Undefined, Str(<<"e", "4">>)),
     DeploymentApp(Num(3), Str(<<"u", "c">>), Undefined, Undefined),
     DeploymentApp(Num(4), Str(<<"u", "d">>), Str(<<" ">>), Undefined),
     DeploymentApp(Num(5), Undefined, Num(1), Undefined) >>

RECURSIVE Ascending(_)
\* the numbers of a set, smallest first
Ascending(S) ==
  IF S = {} THEN <<>>
  ELSE LET m == CHOOSE x \in S : \A y \in S : x <= y
       IN <<m>> \o Ascending(S \ {m})

\* the lists of at most n of the applications, in the order above
AppLists(n) ==
  { [k \in 1..Cardinality(S) |-> DeploymentApps[Ascending(S)[k]]] :
      S \in {T \in SUBSET (1..Len(DeploymentApps)) : Cardinality(T) <= n} }

Deployment(status, environment_id, environment_uuid, created_at) ==
  [status |-> status, environment_id |-> environment_id,
   environment_uuid |-> environment_uuid, created_at |-> created_at]

running == <<"R", "u", "n", "n", "i", "n", "g">>

finished == <<"f", "i", "n", "i", "s", "h", "e", "d">>

RowBare == Deployment(Str(running), Undefined, Undefined, Num(2))

RowEnv1 == Deployment(Str(finished), Num(1), Undefined, Num(1))

RowEnvE4 == Deployment(Undefined, Undefined, Str(<<"e", "4">>), Undefined)

RowPadded == Deployment(Str(finished), Str(<<" ", "e", "4", " ">>), Undefined, Num(3))

\* the uuids of the applications above
DeploymentUuids == {<<"u", "a">>, <<"u", "b">>, <<"u", "c">>, <<"u", "d">>}

\* what the requests to /deployments/applications/<uuid> may be answered
\* with: the same array or object for every uuid, an answer of its own
\* shape for each, or rejections for all but one
DeploymentAnswers ==
  { [u \in DeploymentUuids |-> Arr(<<RowEnv1, RowEnvE4>>)],
    [u \in DeploymentUuids |-> [k |-> "object", data |-> Arr(<<RowBare, RowPadded>>)]],
    [u \in DeploymentUuids |->
       IF u = <<"u", "a">> THEN Arr(<<RowBare>>)
       ELSE IF u = <<"u", "b">> THEN Arr(<<RowEnv1, RowEnvE4>>)
       ELSE IF u = <<"u", "c">>
         THEN [k |-> "object", deployments |-> Arr(<<RowPadded>>)]
       ELSE [k |-> "object"]],
    [u \in DeploymentUuids |->
       IF u = <<"u", "a">> THEN Arr(<<RowBare>>) ELSE Rejected] }

\* what the API may hold during a run of the deployments view
DeploymentServers ==
  [projects : {ProjectsE}, applications : AppLists(MaxApps)]

\* the deployments an earlier run fetched for the applications it had
CachedDeployments ==
  fetchDeployments(SubSeq(DeploymentApps, 1, 2),
                   [u \in DeploymentUuids |->
                      IF u = <<"u", "a">> THEN Arr(<<RowBare>>)
                      ELSE Arr(<<RowEnv1, RowEnvE4>>)]).value

\* the request cache at mount: empty, or filled by an earlier run
DeploymentCaches ==
  { [projects |-> Undefined, environments |-> Undefined,
     applications |-> Undefined, deployments |-> Undefined],
    [projects |-> Arr(ProjectsE),
     environments |-> Arr(fetchProjectEnvironments(ProjectsE)),
     applications |-> Arr(SubSeq(DeploymentApps, 1, 2)),
     deployments |-> Arr(CachedDeployments)] }

DeploymentTokens ==
  { all, statusActive, projectPrefix \o <<"2">>, envPrefix \o prod,
    envPrefix \o dev }

DeploymentSearches == {<<>>, <<"r", "u", "n">>}

\* the first render of the deployments view: every fetch is started, the
\* deployments fetch for the applications the cache holds
InitDeployments ==
  /\ pc = "deployments"
  /\ server \in DeploymentServers
  /\ cached \in DeploymentCaches
  /\ projects = cached.projects
  /\ environments = cached.environments
  /\ applications = cached.applications
  /\ deployments = cached.deployments
  /\ services = Undefined
  /\ databases = Undefined
  /\ fetchState = [f \in ListFetches(pc) |-> "loading"]
  /\ envCall = OrEmpty(projects)
  /\ appsCall = OrEmpty(applications)
  /\ filterValue = all
  /\ searchText = <<>>
  /\ envToProjectMap = buildEnvToProjectMap(OrEmpty(environments))
  /\ envNameMap = buildEnvNameMap(OrEmpty(environments))
  /\ envLookup = buildEnvLookup(OrEmpty(environments))
  /\ envNameToIds = buildEnvNameToIdsMap(OrEmpty(environments))
  /\ appIdToEnvId = buildAppIdToEnvId(OrEmpty(applications))
  /\ filtered = ListFiltered(pc,
                             ListData(pc, applications, databases, services,
                                      deployments),
                             filterValue, searchText,
                             envToProjectMap, envNameToIds, appIdToEnvId)
  /\ resources = <<>>
  /\ items = <<>>
  /\ requests = <<>>
  /\ toasts = <<>>
  /\ clipboard = <<>>
  /\ logsDetail = <<>>
  /\ propEnvironmentId = NoValue
  /\ propEnvironmentUuid = NoValue
  /\ input = <<>>
  /\ baseUrl = <<>>
  /\ rebasedUrl = <<>>
  /\ IdIdle
  /\ UrlIdle
  /\ GroupIdle

\* the effect behind a render with a changed argument list starts the
\* deployments fetch again, for the applications of that render
DeploymentsRestart ==
  /\ pc = "deployments"
  /\ DeploymentsStale
  /\ fetchState' = [fetchState EXCEPT !["deployments"] = "loading"]
  /\ appsCall' = OrEmpty(applications)
  /\ UNCHANGED <<projects, environments, applications, services, databases,
                 deployments, filterValue, searchText>>
  /\ ListRender(FALSE)
  /\ UNCHANGED <<pc, items, resources, server, cached, envCall,
                 idVars, urlVars, groupVars, deployVars,
                 envViewVars, baseUrlVars>>

\* every request of the deployments fetch that was started last was
\* answered: the fetch resolves with the rows of each
DeploymentsResolve(answers) ==
  /\ pc = "deployments"
  /\ ~ListStale
  /\ fetchState["deployments"] = "loading"
  /\ ~fetchDeployments(appsCall, answers).threw
  /\ deployments' = Arr(fetchDeployments(appsCall, answers).value)
  /\ fetchState' = [fetchState EXCEPT !["deployments"] = "resolved"]
  /\ UNCHANGED <<projects, environments, applications, services, databases,
                 filterValue, searchText>>
  /\ ListRender(FALSE)
  /\ UNCHANGED <<pc, items, resources, server, cached, envCall, appsCall,
                 idVars, urlVars, groupVars, deployVars,
                 envViewVars, baseUrlVars>>

\* a request of the deployments fetch was rejected: the fetch fails and its
\* data is what keepPreviousData leaves
DeploymentsFail(answers) ==
  /\ pc = "deployments"
  /\ ~ListStale
  /\ fetchState["deployments"] = "loading"
  /\ fetchDeployments(appsCall, answers).threw
  /\ deployments' = DataAfterFailure(deployments)
  /\ fetchState' = [fetchState EXCEPT !["deployments"] = "failed"]
  /\ UNCHANGED <<projects, environments, applications, services, databases,
                 filterValue, searchText>>
  /\ ListRender(FALSE)
  /\ UNCHANGED <<pc, items, resources, server, cached, envCall, appsCall,
                 idVars, urlVars, groupVars, deployVars,
                 envViewVars, baseUrlVars>>

NextDeployments ==
  \/ ListProjectsResolve
  \/ ListEnvironmentsRestart
  \/ ListEnvironmentsResolve
  \/ ListItemsResolve
  \/ DeploymentsRestart
  \/ \E answers \in DeploymentAnswers : DeploymentsResolve(answers)
  \/ \E answers \in DeploymentAnswers : DeploymentsFail(answers)
  \/ \E f \in FetchNames : ListFetchFails(f)
  \/ \E token \in DeploymentTokens : ListSetFilter(token)
  \/ \E text \in DeploymentSearches : ListSetSearch(text)

SpecDeployments == InitDeployments /\ [][NextDeployments]_vars

(* ------------------- claims on the deployments view -------------------- *)

\* the deployment was fetched for an application of the current list
HasSourceApp(d) ==
  \E i \in 1..Len(OrEmpty(applications)) :
    /\ Truthy(OrEmpty(applications)[i].uuid)
    /\ OrEmpty(applications)[i].uuid = d.source_app_uuid

\* the application a deployment was fetched for
SourceApp(d) ==
  LET apps == OrEmpty(applications)
  IN apps[CHOOSE i \in 1..Len(apps) :
            Truthy(apps[i].uuid) /\ apps[i].uuid = d.source_app_uuid]

\* the normalized environment reference of a record, null if it has none
EnvRef(r) == toId(Coalesce(r.environment_id, r.environment_uuid))

\* the environment a deployment belongs to: that of its application, else
\* its own, else none ("")
Attributed(d) ==
  IF EnvRef(SourceApp(d)) # Null THEN EnvRef(SourceApp(d)).s
  ELSE Coalesce(EnvRef(d), Str(<<>>)).s

\* the environment the row of a deployment is displayed under
DisplayedEnv(d) == resolveEnvId(d, appIdToEnvId, resolveAppKey(d))

KeptDeployment(d) == \E i \in 1..Len(filtered) : filtered[i] = d

\* the search text is blank or found in the text of the deployment
SearchKeeps(d) ==
  \/ Trim(searchText) = <<>>
  \/ Occurrences(DeploymentHaystack(d), ToLowerCase(Trim(searchText))) # {}

\* the application a deployment was fetched for, in the list or not
FetchedFor(d) ==
  DeploymentApps[CHOOSE i \in 1..Len(DeploymentApps) :
                   /\ Truthy(DeploymentApps[i].uuid)
                   /\ DeploymentApps[i].uuid = d.source_app_uuid]

\* C27 as stated: every deployment on display is displayed under the
\* environment of the application A it was fetched for whenever A has a
\* non-empty environment reference. It fails for a deployment kept from an
\* earlier fetch whose application is not in the applications list: the index
\* of the list has no entry for it, and the row falls back to its own fields.
C27_Original ==
  pc = "deployments" =>
    \A i \in 1..Len(OrEmpty(deployments)) :
      LET d == OrEmpty(deployments)[i]
      IN EnvRef(FetchedFor(d)) # Null =>
           DisplayedEnv(d) = EnvRef(FetchedFor(d)).s

\* C27: a deployment fetched for an application A of the applications list
\* is displayed and filtered under A's environment whenever A has a non-empty
\* environment reference, whatever its own environment fields say, and under
\* its own normalized fields only when A has none; of the deployments the
\* search keeps, project: and env: tokens keep exactly those whose
\* environment so resolved maps to the project or carries the name, and drop
\* a deployment with no resolvable environment.
C27_DeploymentEnvironment ==
  pc = "deployments" =>
    \A i \in 1..Len(OrEmpty(deployments)) :
      LET d == OrEmpty(deployments)[i]
          envId == Attributed(d)
      IN HasSourceApp(d) =>
         /\ DisplayedEnv(d) = envId
         /\ StartsWith(filterValue, projectPrefix) =>
              (KeptDeployment(d) <=>
                 /\ SearchKeeps(d)
                 /\ MapHas(envToProjectMap, envId)
                 /\ envToProjectMap[envId] = RemoveFirst(filterValue, projectPrefix))
         /\ StartsWith(filterValue, envPrefix) =>
              (KeptDeployment(d) <=>
                 /\ SearchKeeps(d)
                 /\ MapHas(envNameToIds, RemoveFirst(filterValue, envPrefix))
                 /\ envId \in envNameToIds[RemoveFirst(filterValue, envPrefix)])
         /\ (envId = <<>> /\ (StartsWith(filterValue, projectPrefix)
                               \/ StartsWith(filterValue, envPrefix)))
              => ~KeptDeployment(d)

\* under project:2, the deployments of the application of environment e4
\* are kept although one of them names environment 1, and of the
\* application without an environment only the deployment naming e4 is kept
C27_Witness ==
  /\ pc = "deployments"
  /\ filterValue = projectPrefix \o <<"2">>
  /\ fetchState["deployments"] = "resolved"
  /\ Len(OrEmpty(applications)) = 2
  /\ OrEmpty(applications)[1].environment_uuid = Str(<<"e", "4">>)
  /\ EnvRef(OrEmpty(applications)[2]) = Null
  /\ Len(OrEmpty(deployments)) = 4
  /\ \A i \in 1..4 : HasSourceApp(OrEmpty(deployments)[i])
  /\ OrEmpty(deployments)[1].environment_id = Num(1)
  /\ KeptDeployment(OrEmpty(deployments)[1])
  /\ KeptDeployment(OrEmpty(deployments)[2])
  /\ ~KeptDeployment(OrEmpty(deployments)[3])
  /\ KeptDeployment(OrEmpty(deployments)[4])
  /\ Len(filtered) = 3


(* ------------------ the resources of one environment ------------------- *)

\* variant: the keys are not filtered, an unusable one is kept as ""
EnvironmentResourcesAnyKey(list, environmentId, environmentUuid) ==
  LET keys == {Coalesce(toId(environmentId), Str(<<>>)).s,
               Coalesce(toId(environmentUuid), Str(<<>>)).s}
      Keep(item) == Coalesce(toId(item.environmentId), Str(<<>>)).s \in keys
  IN SelectSeq(list, Keep)

\* the filteredResources memo of EnvironmentResourcesList
EnvironmentResources(list, environmentId, environmentUuid) ==
  LET envId == toId(environmentId)
      envUuid == toId(environmentUuid)
      keys == {k.s : k \in {x \in {envId, envUuid} : Truthy(x)}}
      Keep(item) == Coalesce(toId(item.environmentId), Str(<<>>)).s \in keys
  IN IF keys = {} THEN <<>> ELSE SelectSeq(list, Keep)

\* environmentId={String(environment.id ?? "")}
EnvironmentIdProp(environment) ==
  Str(TextOf(Coalesce(environment.id, Str(<<>>))))

\* environmentUuid={environment.uuid ? String(environment.uuid) : undefined}
EnvironmentUuidProp(environment) ==
  IF Truthy(environment.uuid) THEN Str(TextOf(environment.uuid)) ELSE Undefined

(* ----------- specification: the resources of one environment ----------- *)

\* the fetches of EnvironmentResourcesList
EnvFetches == {"applications", "services", "databases"}

\* applications that refer to environment 1 by number and by a padded
\* string
EnvApplications ==
  <<App(Num(1), Str(<<"u", "a">>), Str(<<"A", "p", "p">>),
        Str(<<"a", ".", "c", "o", "m">>), Num(1)),
    App(Num(2), Str(<<"u", "b">>), Str(<<"W", "e", "b">>), Undefined,
        Str(<<" ", "1">>))>>

\* a service that refers to its environment by uuid alone, one of
\* environment 1 without a uuid of its own, and one with an empty reference
EnvServices ==
  <<[Resource(Num(1), Str(<<"u", "s">>), Str(<<"S", "v", "c">>), Undefined)
       EXCEPT !.environment_uuid = Str(<<"e", "4">>)],
    Resource(Num(2), Undefined, Str(<<"C", "r", "o", "n">>), Num(1)),
    Resource(Num(3), Str(<<"u", "t">>), Str(<<"J", "o", "b">>), Str(<<>>))>>

\* a database with a blank reference and one without a reference
EnvDatabases ==
  <<Resource(Num(1), Str(<<"u", "d">>), Str(<<"D", "b">>), Str(<<" ">>)),
    Resource(Num(2), Undefined, Str(<<"P", "g">>), Undefined)>>

\* what the API holds during a run of the view
EnvServers ==
  [applications : {EnvApplications},
   services : {EnvServices},
   databases : {EnvDatabases}]

\* the request cache at mount: empty, or filled by an earlier run
EnvCaches ==
  { [applications |-> Undefined, services |-> Undefined,
     databases |-> Undefined],
    [applications |-> Arr(SubSeq(EnvApplications, 2, 2)),
     services |-> Arr(SubSeq(EnvServices, 1, 2)),
     databases |-> Arr(<<>>)] }

\* the environments of the list the view is opened from: with id and uuid,
\* with one of them, with a blank or padded id, with a uuid that is another
\* environment's id, and with neither
EnvRows ==
  { [id |-> Num(1), uuid |-> Str(<<"e", "1">>)],
    [id |-> Undefined, uuid |-> Str(<<"e", "4">>)],
    [id |-> Num(2), uuid |-> Str(<<"1">>)],
    [id |-> Str(<<" ", "1", " ">>), uuid |-> Undefined],
    [id |-> Str(<<" ">>), uuid |-> Undefined],
    [id |-> Undefined, uuid |-> Str(<<>>)],
    [id |-> Undefined, uuid |-> Undefined] }

\* the resources and filteredResources memos of one render
EnvRender ==
  /\ resources' = Resources(applications', services', databases')
  /\ filtered' = EnvironmentResources(resources', propEnvironmentId',
                                      propEnvironmentUuid')

\* the environment list of a project is on display
InitEnvView ==
  /\ pc = "input"
  /\ server \in EnvServers
  /\ cached \in EnvCaches
  /\ projects = Undefined
  /\ environments = Undefined
  /\ fetchState = NoValue
  /\ searchText = <<>>
  /\ envCall = <<>>
  /\ items = <<>>
  /\ filterValue = <<>>
  /\ filtered = <<>>
  /\ IdIdle
  /\ IndexIdle
  /\ ResourceIdle
  /\ UrlIdle
  /\ GroupIdle
  /\ DeployIdle

\* Action.Push "Show Resources" on an environment: EnvironmentResourcesList
\* mounts with the props of the environment, starts its three fetches with
\* the data of the request cache, and renders
ShowResources(environment) ==
  /\ pc = "input"
  /\ pc' = "environment"
  /\ propEnvironmentId' = EnvironmentIdProp(environment)
  /\ propEnvironmentUuid' = EnvironmentUuidProp(environment)
  /\ applications' = cached.applications
  /\ services' = cached.services
  /\ databases' = cached.databases
  /\ fetchState' = [f \in EnvFetches |-> "loading"]
  /\ EnvRender
  /\ UNCHANGED <<items, filterValue, searchText, server, cached, envCall,
                 idVars, envVars, indexVars, urlVars, groupVars, deployVars,
                 deploymentVars, baseUrlVars>>

\* the /applications, /services or /databases fetch of the view resolves
\* and the view renders
EnvFetchResolves(f) ==
  /\ pc = "environment"
  /\ fetchState[f] = "loading"
  /\ fetchState' = [fetchState EXCEPT ![f] = "resolved"]
  /\ applications' = IF f = "applications" THEN Arr(server.applications)
                     ELSE applications
  /\ services' = IF f = "services" THEN Arr(server.services) ELSE services
  /\ databases' = IF f = "databases" THEN Arr(server.databases) ELSE databases
  /\ UNCHANGED envViewVars
  /\ EnvRender
  /\ UNCHANGED <<pc, items, filterValue, searchText, server, cached, envCall,
                 idVars, envVars, indexVars, urlVars, groupVars, deployVars,
                 deploymentVars, baseUrlVars>>

\* a fetch of the view fails at the HTTP boundary: its data is what
\* keepPreviousData leaves
EnvFetchFails(f) ==
  /\ pc = "environment"
  /\ fetchState[f] = "loading"
  /\ fetchState' = [fetchState EXCEPT ![f] = "failed"]
  /\ applications' =
       IF f = "applications" THEN DataAfterFailure(applications) ELSE applications
  /\ services' = IF f = "services" THEN DataAfterFailure(services) ELSE services
  /\ databases' = IF f = "databases" THEN DataAfterFailure(databases) ELSE databases
  /\ UNCHANGED envViewVars
  /\ EnvRender
  /\ UNCHANGED <<pc, items, filterValue, searchText, server, cached, envCall,
                 idVars, envVars, indexVars, urlVars, groupVars, deployVars,
                 deploymentVars, baseUrlVars>>

NextEnvView ==
  \/ \E environment \in EnvRows : ShowResources(environment)
  \/ \E f \in EnvFetches : EnvFetchResolves(f)
  \/ \E f \in EnvFetches : EnvFetchFails(f)
  \/ \E item \in FirstOffering("deploy"), force \in BOOLEAN :
       Redeploy(item, force)
  \/ \E i \in 1..Len(requests), settled \in Settled : DeploySettles(i, settled)
  \/ \E item \in FirstOffering("logs") : CopyLogs(item)
  \/ \E i \in 1..Len(requests), settled \in Settled, response \in LogResponses :
       LogsSettle(i, settled, response)
  \/ \E i \in 1..Len(requests), settled \in Settled : CopySettles(i, settled)
  \/ \E item \in FirstOffering("logs"), lines \in DetailLines :
       ShowLogs(item, lines)
  \/ \E i \in 1..Len(requests), settled \in Settled, response \in LogResponses :
       DetailSettles(i, settled, response)

SpecEnvView == InitEnvView /\ [][NextEnvView]_vars

(* -------------- claims on the resources of one environment ------------- *)

\* the normalized environment reference of an item, null when absent or blank
ItemRef(item) == toId(item.environmentId)

\* the item's reference is the normalized id or uuid the view was given
RefersToShown(item) ==
  /\ ItemRef(item) # Null
  /\ ItemRef(item) \in {toId(propEnvironmentId), toId(propEnvironmentUuid)}

\* C28: in every render of the per-environment view the rows are, in
\* aggregation order, exactly the aggregated resources whose normalized
\* environmentId equals the normalized id or the normalized uuid given to
\* the view; a resource with an absent or blank reference is never listed,
\* and with neither a usable id nor a usable uuid the list is empty.
C28_EnvironmentResources ==
  pc = "environment" =>
    /\ Rows = SelectSeq(Resources(applications, services, databases),
                        RefersToShown)
    /\ \A i \in 1..Len(Rows) : ItemRef(Rows[i]) # Null
    /\ (toId(propEnvironmentId) = Null /\ toId(propEnvironmentUuid) = Null)
         => Rows = <<>>

\* the view of the environment { id: 2, uuid: "1" } has fetched its three
\* lists: of the seven resources it lists the application that refers to 1,
\* the one that refers to " 1" and the service that refers to 1, in this
\* order, and none of the resources with an empty, a blank or no reference
C28_Witness ==
  /\ pc = "environment"
  /\ propEnvironmentId = Str(<<"2">>)
  /\ propEnvironmentUuid = Str(<<"1">>)
  /\ \A f \in EnvFetches : fetchState[f] = "resolved"
  /\ Len(resources) = 7
  /\ OrEmpty(applications)[2].environment_id = Str(<<" ", "1">>)
  /\ OrEmpty(services)[3].environment_id = Str(<<>>)
  /\ OrEmpty(databases)[1].environment_id = Str(<<" ">>)
  /\ OrEmpty(databases)[2].environment_id = Undefined
  /\ Len(Rows) = 3
  /\ Rows[1].name = Str(<<"A", "p", "p">>)
  /\ Rows[2].name = Str(<<"W", "e", "b">>)
  /\ Rows[3].name = Str(<<"C", "r", "o", "n">>)

(* ------------------- specification: redeploy in every view ------------- *)

\* the command that is opened: the resources view, a list view, or the
\* environment list of a project
InitRedeploy == InitDeploy \/ InitList \/ InitEnvView

NextRedeploy == NextDeploy \/ NextList \/ NextEnvView

SpecDeploy == InitRedeploy /\ [][NextRedeploy]_vars


(* ------------------------ claims on the empty view --------------------- *)

\* the isLoading prop of the list: some fetch of the view is in flight
isLoading == \E f \in DOMAIN fetchState : fetchState[f] = "loading"

\* the resources view renders List.EmptyView: !filteredResources?.length
ResourcesEmptyView == filtered = <<>>

\* the applications and databases views render List.EmptyView:
\* !isLoadingApplications && (filteredApplications ?? []).length === 0
ListEmptyView == fetchState[pc] # "loading" /\ filtered = <<>>

\* C29: in the resources, applications and databases views the empty view
\* is not rendered while isLoading, the disjunction of the loading flags of
\* the fetches of the view, is true.
C29_EmptyViewOnlyWhenSettled ==
  /\ pc = "view" => ~(ResourcesEmptyView /\ isLoading)
  /\ pc \in {"applications", "databases"} => ~(ListEmptyView /\ isLoading)


(* --------------------------- normalizeBaseUrl -------------------------- *)

DEFAULT_BASE_URL ==
  <<"h", "t", "t", "p", "s", ":", "/", "/", "a", "p", "p", ".", "c", "o", "o", "l", "i", "f", "y", ".", "i", "o",
    "/", "a", "p", "i", "/", "v", "1">>

apiSuffix == <<"/", "a", "p", "i", "/", "v", "1">>

\* s.endsWith(suffix)
EndsWith(s, suffix) ==
  Len(s) >= Len(suffix) /\ SubSeq(s, Len(s) - Len(suffix) + 1, Len(s)) = suffix

RECURSIVE StripTrailingSlashes(_)
\* s.replace(/\/+$/, "")
StripTrailingSlashes(s) ==
  IF s # <<>> /\ s[Len(s)] = "/" THEN StripTrailingSlashes(SubSeq(s, 1, Len(s) - 1))
  ELSE s

\* variant: the suffix is appended without looking at the end of the input
normalizeBaseUrlAppend(text) ==
  LET trimmed == StripTrailingSlashes(Trim(text))
  IN IF trimmed = <<>> THEN DEFAULT_BASE_URL ELSE trimmed \o apiSuffix

normalizeBaseUrl(text) ==
  LET trimmed == StripTrailingSlashes(Trim(text))
  IN IF trimmed = <<>> THEN DEFAULT_BASE_URL
     ELSE IF EndsWith(trimmed, apiSuffix) THEN trimmed
     ELSE trimmed \o apiSuffix

(* ----------------- specification: normalizeBaseUrl --------------------- *)

\* number of pieces an API URL preference is made of
MaxPieces == 4

\* the pieces: white space, a slash, a host and the API path
UrlPieces == {<<" ">>, <<"/">>, <<"h">>, apiSuffix}

RECURSIVE UrlsOf(_)
\* the strings made of at most n pieces
UrlsOf(n) ==
  IF n = 0 THEN {<<>>}
  ELSE UrlsOf(n - 1) \cup {u \o piece : u \in UrlsOf(n - 1), piece \in UrlPieces}

InitBaseUrl ==
  /\ pc = "input"
  /\ input \in UrlsOf(MaxPieces)
  /\ baseUrl = <<>>
  /\ rebasedUrl = <<>>
  /\ requests = <<>>
  /\ toasts = <<>>
  /\ clipboard = <<>>
  /\ logsDetail = <<>>
  /\ deployments = <<>>
  /\ appIdToEnvId = EmptyMap
  /\ appsCall = <<>>
  /\ propEnvironmentId = NoValue
  /\ propEnvironmentUuid = NoValue
  /\ IdIdle
  /\ EnvIdle
  /\ IndexIdle
  /\ FilterIdle
  /\ ResourceIdle
  /\ UrlIdle
  /\ GroupIdle
  /\ ViewIdle

\* const baseUrl = normalizeBaseUrl(apiUrl ?? "")
NormalizeBaseUrl ==
  /\ pc = "input"
  /\ baseUrl' = normalizeBaseUrl(input)
  /\ pc' = "based"
  /\ UNCHANGED <<input, rebasedUrl, idVars, envVars, indexVars, filterVars,
                 resourceVars, urlVars, groupVars, viewVars, deployVars,
                 deploymentVars, envViewVars>>

\* normalizeBaseUrl on a base URL
RenormalizeBaseUrl ==
  /\ pc = "based"
  /\ rebasedUrl' = normalizeBaseUrl(baseUrl)
  /\ pc' = "rebased"
  /\ UNCHANGED <<input, baseUrl, idVars, envVars, indexVars, filterVars,
                 resourceVars, urlVars, groupVars, viewVars, deployVars,
                 deploymentVars, envViewVars>>

NextBaseUrl == NormalizeBaseUrl \/ RenormalizeBaseUrl

SpecBaseUrl == InitBaseUrl /\ [][NextBaseUrl]_vars

(* ---------------------- claims on normalizeBaseUrl --------------------- *)

\* the input is blank or consists of slashes only
BlankOrSlashes ==
  \/ \A i \in 1..Len(input) : input[i] \in WhiteSpace
  \/ \A i \in 1..Len(input) : input[i] = "/"

\* the API path twice
doubledSuffix == apiSuffix \o apiSuffix

\* C30 as stated: normalizeBaseUrl(normalizeBaseUrl(s)) = normalizeBaseUrl(s),
\* the result ends with "/api/v1" and never with "/api/v1/api/v1", and a
\* blank or slashes-only input gives the default.
C30_Original ==
  /\ pc \in {"based", "rebased"} =>
       /\ EndsWith(baseUrl, apiSuffix)
       /\ ~EndsWith(baseUrl, doubledSuffix)
       /\ BlankOrSlashes => baseUrl = DEFAULT_BASE_URL
  /\ pc = "rebased" => rebasedUrl = baseUrl

\* C30 (amended): normalizeBaseUrl(normalizeBaseUrl(s)) = normalizeBaseUrl(s),
\* the result ends with "/api/v1" and so has no trailing slash, a blank or
\* slashes-only input gives the default, and the result ends with
\* "/api/v1/api/v1" only when the input, trimmed and without its trailing
\* slashes, already ends with it: the function never appends a second one.
C30_IdempotentCanonical ==
  /\ pc \in {"based", "rebased"} =>
       /\ EndsWith(baseUrl, apiSuffix)
       /\ baseUrl[Len(baseUrl)] # "/"
       /\ EndsWith(baseUrl, doubledSuffix)
            => EndsWith(StripTrailingSlashes(Trim(input)), doubledSuffix)
       /\ BlankOrSlashes => baseUrl = DEFAULT_BASE_URL
       /\ EndsWith(StripTrailingSlashes(Trim(input)), apiSuffix)
            => baseUrl = StripTrailingSlashes(Trim(input))
  /\ pc = "rebased" => rebasedUrl = baseUrl

\* " h/api/v1/" gave "h/api/v1", and normalizing that again changed nothing
C30_Witness ==
  /\ pc = "rebased"
  /\ input = <<" ", "h">> \o apiSuffix \o <<"/">>
  /\ baseUrl = <<"h">> \o apiSuffix
  /\ rebasedUrl = baseUrl

====
